---- MODULE Spec2Model ----
(***************************************************************************)
(* Model of the incremental evaluation engine of the semilog crate:        *)
(*   - Iteration / Guard, the budgeted fixpoint driver    (datalog.rs)     *)
(*   - Map<K, V> as DeferredRestore: stable / recent / to_add, restore(),  *)
(*     merge, gallop and join                              (map.rs)        *)
(*   - Set<K>, which is Map<K, ()>                         (set.rs)        *)
(* Two collections, "A" and "B", are modelled.  Under Spec they are driven *)
(* by free sequences of insert / join / restore calls, "A" a Map with      *)
(* Redactable values and "B" a Set; under SpecLoop both are Sets (unit     *)
(* values) driven by a `while iteration.unfinished()` loop that guards     *)
(* both.                                                                   *)
(***************************************************************************)
EXTENDS Integers, Sequences, FiniteSets, TLC

\* ------------------------------------------------------------------ bounds
\* keys are 1..MaxKey
MaxKey == 2
\* entries pushed to the to_add buffers: insert() calls and, under Spec, the
\* entries pushed by join()
MaxPush == 4
\* under Spec, the entries pushed to the to_add buffer of "B" among them
MaxOther == 1
\* largest budget handed to Iteration::new
MaxRounds == 4
\* the members of a Set<K> handed to a lattice call are 1..MaxElem
MaxElem == 3
\* the bounded integer type T of Min<T> and Max<T> is 0..MaxInt
MaxInt == 1
\* joins applied to a Redactable register
MaxJoins == 3
\* longest VecLattice handed to a lattice call
MaxVecLen == 2
\* the bounded type T of Interval<T> is 0..MaxBound
MaxBound == 3
\* longest sequence handed to fold
MaxFoldLen == 3
\* longest list of orderings handed to partial_ord_helper
MaxFields == 3
MaxSlice == 9
MaxStart == 8
MaxCap == 9
MaxAbsorb == 3

Keys == 1..MaxKey
Colls == {"A", "B"}

\* ----------------------------------------------------- the value lattices
\* `impl Semilattice for ()`: the value type of Set<K>
Unit == "unit"
\* Redactable<T>: Uninitialized (bottom), Data(T), Redacted (top)
Uninitialized == "Uninitialized"
Redacted == "Redacted"
Data == {"hello world", "hello kitty"}
\* the values a caller inserts into a Map-backed collection
MapVals == Data \cup {Redacted}

\* Redactable::partial_cmp; () compares Equal with ()
ValPartialCmp(a, b) ==
  IF a = b THEN "Equal"
  ELSE IF b = Uninitialized THEN "Greater"
  ELSE IF a = Uninitialized THEN "Less"
  ELSE IF a = Redacted /\ b \in Data THEN "Greater"
  ELSE IF a \in Data /\ b = Redacted THEN "Less"
  ELSE "None"

\* a slip of ValJoin: of two different Data values the later one wins
ValJoinOverwrite(a, b) ==
  IF (a = Uninitialized /\ b \in Data) THEN b
  ELSE IF (a \in Data /\ b = Uninitialized) THEN a
  ELSE IF a = b THEN a
  ELSE IF (a \in Data /\ b \in Data) THEN b
  ELSE Redacted

\* Redactable::join; join of () with () is ()
ValJoin(a, b) ==
  IF (a = Uninitialized /\ b \in Data) THEN b
  ELSE IF (a \in Data /\ b = Uninitialized) THEN a
  ELSE IF a = b THEN a
  ELSE Redacted

\* ---------------------------------------------------------------- helpers
Range(s) == {s[i] : i \in DOMAIN s}
Last(s) == s[Len(s)]
Front(s) == SubSeq(s, 1, Len(s) - 1)
\* &slice[n..]
Drop(s, n) == SubSeq(s, n + 1, Len(s))

RECURSIVE Flatten(_)
Flatten(batches) ==
  IF batches = <<>> THEN <<>> ELSE Head(batches) \o Flatten(Tail(batches))

\* sort_by(|x, y| x.0.cmp(&y.0)): a stable sort on the key alone
RECURSIVE SortedInsert(_, _)
SortedInsert(s, x) ==
  IF s = <<>> THEN <<x>>
  ELSE IF Last(s).k <= x.k THEN Append(s, x)
  ELSE Append(SortedInsert(Front(s), x), Last(s))

RECURSIVE SortByKey(_)
SortByKey(s) ==
  IF s = <<>> THEN <<>> ELSE SortedInsert(SortByKey(Front(s)), Last(s))

\* ----------------------------------------------------------------- gallop
\* cmp is given as the set P of the elements it is true of
RECURSIVE GallopUp(_, _, _)
GallopUp(slice, step, P) ==
  IF step < Len(slice) /\ slice[step + 1] \in P
  THEN GallopUp(Drop(slice, step), step * 2, P)
  ELSE <<slice, step>>

RECURSIVE GallopDown(_, _, _)
GallopDown(slice, step, P) ==
  IF step > 0
  THEN GallopDown(IF step < Len(slice) /\ slice[step + 1] \in P
                  THEN Drop(slice, step) ELSE slice,
                  step \div 2, P)
  ELSE slice

gallop(slice, P) ==
  IF slice # <<>> /\ slice[1] \in P
  THEN LET up == GallopUp(slice, 1, P)
       IN  Drop(GallopDown(up[1], up[2] \div 2, P), 1)
  ELSE slice

\* ------------------------------------------------------------------ merge
\* partition_dedup_by(|x, y| x.0 == y.0) on a sorted run, followed by the
\* loop that joins every duplicate's value into the retained entry of its
\* key.  The order of the duplicates is not defined by partition_dedup_by;
\* ValJoin is associative and commutative, so every order gives this run.
\* a slip of DedupJoin: the duplicates are dropped and their values are not
\* joined into the retained entry
RECURSIVE DedupKeepFirst(_)
DedupKeepFirst(s) ==
  IF Len(s) <= 1 THEN s
  ELSE LET d == DedupKeepFirst(Front(s))
           x == Last(s)
       IN  IF Last(d).k = x.k THEN d ELSE Append(d, x)

RECURSIVE DedupJoin(_)
DedupJoin(s) ==
  IF Len(s) <= 1 THEN s
  ELSE LET d == DedupJoin(Front(s))
           x == Last(s)
       IN  IF Last(d).k = x.k
           THEN Append(Front(d), [k |-> x.k, v |-> ValJoin(Last(d).v, x.v)])
           ELSE Append(d, x)

merge(vec, other) ==
  IF other = <<>> THEN vec
  ELSE IF vec = <<>> THEN other
  ELSE IF Last(vec).k <= other[1].k THEN vec \o other
  ELSE IF Last(other).k <= vec[1].k THEN other \o vec
  ELSE DedupJoin(SortByKey(vec \o other))

\* ---------------------------------------------------------------- restore
\* a slip of MergeCond: < for <=
MergeCondStrict(last, recent) == Len(last) < 2 * Len(recent)

\* the condition of the while loop of step 1
MergeCond(last, recent) == Len(last) <= 2 * Len(recent)

RECURSIVE MergeLoop(_, _)
MergeLoop(stable, recent) ==
  IF stable # <<>> /\ MergeCond(Last(stable), recent)
  THEN MergeLoop(Front(stable), merge(recent, Last(stable)))
  ELSE Append(stable, recent)

\* 1. Merge self.recent into self.stable.
MergeRecent(stable, recent) ==
  IF recent # <<>> THEN MergeLoop(stable, recent) ELSE stable

\* the closure given to to_add.retain, after slice has been advanced
Keep(x, slice) ==
  IF slice # <<>>
  THEN slice[1].k # x.k \/ ValPartialCmp(x.v, slice[1].v) \in {"None", "Less"}
  ELSE FALSE

\* to_add.retain(..) against one batch; slice is carried from entry to entry
RECURSIVE RetainBatch(_, _)
RetainBatch(to_add, slice) ==
  IF to_add = <<>> THEN <<>>
  ELSE LET x == Head(to_add)
           s == gallop(slice, {y \in Range(slice) : y.k < x.k})
       IN  (IF Keep(x, s) THEN <<x>> ELSE <<>>) \o RetainBatch(Tail(to_add), s)

\* 2b. for batch in &self.stable { to_add.retain(..) }
RECURSIVE FilterStable(_, _)
FilterStable(to_add, stable) ==
  IF stable = <<>> THEN to_add
  ELSE FilterStable(RetainBatch(to_add, Head(stable)), Tail(stable))

\* Map::restore: the collection it leaves
restore(m) ==
  LET st == MergeRecent(m.stable, m.recent)
  IN  [stable |-> st,
       recent |-> FilterStable(SortByKey(m.to_add), st),
       to_add |-> <<>>]

\* Map::restore: the value it returns
RestoreResult(m) == restore(m).recent # <<>>

\* ------------------------------------------------------------------- join
for_each_stable(m) == Flatten(m.stable)
for_each_recent(m) == m.recent

\* <<a, b>> for every b of bs, in order
PairsWith(a, bs) == [i \in 1..Len(bs) |-> <<a, bs[i]>>]

RECURSIVE Cross(_, _)
Cross(as, bs) ==
  IF as = <<>> THEN <<>> ELSE PairsWith(Head(as), bs) \o Cross(Tail(as), bs)

\* the second loop of Map::join: each recent a against other's stable, then
\* against other's recent
RECURSIVE RecentPairs(_, _)
RecentPairs(as, other) ==
  IF as = <<>> THEN <<>>
  ELSE PairsWith(Head(as), for_each_stable(other))
       \o PairsWith(Head(as), for_each_recent(other))
       \o RecentPairs(Tail(as), other)

\* a slip of JoinPairs: the naive join, stable x stable included
JoinPairsNaive(self, other) ==
  Cross(Flatten(self.stable) \o self.recent,
        for_each_stable(other) \o for_each_recent(other))

\* the pairs (a, b) Map::join hands to func, in call order
JoinPairs(self, other) ==
  Cross(Flatten(self.stable), for_each_recent(other)) \o RecentPairs(self.recent, other)

\* the caller's func: a key derived from both keys, with the value of a
func(a, b) == [k |-> ((a.k + b.k) % MaxKey) + 1, v |-> a.v]

\* the entries Map::join pushes to self.to_add
JoinPushes(self, other) ==
  LET ps == JoinPairs(self, other)
  IN  [i \in 1..Len(ps) |-> func(ps[i][1], ps[i][2])]

\* -------------------------------------------------------------- Iteration
\* self.rounds.saturating_sub(1) on a usize
SaturatingSub1(r) == IF r > 0 THEN r - 1 ELSE 0

\* a slip of UnfinishedReturns: >= for >
UnfinishedReturnsGe(r, ch) == r >= 0 /\ ch

\* self.rounds > 0 && self.changed.replace(false): the value returned, given
\* the decremented counter and the flag
UnfinishedReturns(r, ch) == r > 0 /\ ch

\* a slip of ChangedAfterCall: the flag is read and not reset
ChangedAfterCallKept(r, ch) == ch

\* the flag after the call: && short-circuits, replace(false) runs only when
\* the decremented counter is > 0
ChangedAfterCall(r, ch) == IF r > 0 THEN FALSE ELSE ch

\* a slip of ChangedAfterDrop: restore() runs and its result is ignored
ChangedAfterDropIgnored(ch, res) == ch

\* Guard::drop: if self.inner.restore() { self.changed.set(true) }
ChangedAfterDrop(ch, res) == IF res THEN TRUE ELSE ch

\* ------------------------------------------------------------------ state
VARIABLES
  coll,      \* coll[c]: the Map of collection c: stable, recent, to_add
  npush,     \* npush[c]: entries pushed to c.to_add so far
  inserted,  \* history: inserted[c] is every entry ever pushed to c.to_add
  derived,   \* history: derived[c] entries of c.to_add were pushed by join()
  rounds,    \* Iteration.rounds
  changed,   \* Iteration.changed
  pc,        \* the driver: "free" | "cond" | "body" | "drop" | "done"
  guards,    \* the collections whose Guard is alive
  budget,    \* history: the argument of Iteration::new
  calls,     \* history: calls of unfinished() so far
  trues,     \* history: calls of unfinished() that returned true
  roundChg,  \* history: a guard dropped in the current round reported change
  allChg,    \* history: every finished round reported change
  fired,     \* history: fired[a][b] = rounds in which func met keys a and b
  oldPair,   \* history: func met a pair whose members were both in stable
  argA,      \* a call of a lattice operation: its first operand (self)
  argB,      \* its second operand (other)
  argC,      \* the third element of a law check
  op,        \* the operation called: "none" before the call
  ret        \* what the call returned: [done |-> FALSE] before it returns

vars == <<coll, npush, inserted, derived, rounds, changed, pc, guards, budget, calls,
          trues, roundChg, allChg, fired, oldPair, argA, argB, argC, op, ret>>
engine == <<coll, npush, inserted, derived, rounds, changed, pc, guards, budget, calls,
            trues, roundChg, allChg, fired, oldPair>>
call == <<argA, argB, argC, op, ret>>
iter == <<rounds, changed, pc, guards, budget, calls, trues, roundChg, allChg>>
joinHist == <<fired, oldPair>>

\* Map::default()
EmptyMap == [stable |-> <<>>, recent |-> <<>>, to_add |-> <<>>]

\* a slip of insert: the entry is pushed to recent, skipping the staging
insertRecent(m, e) == [m EXCEPT !.recent = Append(@, e)]

\* Map::insert: self.to_add.push(val.into())
insert(m, e) == [m EXCEPT !.to_add = Append(@, e)]

\* Map::join: every func result is pushed to self.to_add
join(self, other) == [self EXCEPT !.to_add = @ \o JoinPushes(self, other)]

InitColl ==
  /\ coll = [c \in Colls |-> EmptyMap]
  /\ npush = [c \in Colls |-> 0]
  /\ inserted = [c \in Colls |-> {}]
  /\ derived = [c \in Colls |-> 0]
  /\ fired = [a \in Keys |-> [b \in Keys |-> 0]]
  /\ oldPair = FALSE

\* ------------------------------------------- Spec: free sequences of calls
\* no lattice operation is called under Spec and SpecLoop
NoCall ==
  argA = <<>> /\ argB = <<>> /\ argC = <<>> /\ op = "none" /\ ret = [done |-> FALSE]

\* two empty collections and no loop around them
EngineIdle ==
  /\ InitColl
  /\ rounds = 0 /\ changed = TRUE /\ pc = "free" /\ guards = {}
  /\ budget = 0 /\ calls = 0 /\ trues = 0
  /\ roundChg = FALSE /\ allChg = TRUE

Init == EngineIdle /\ NoCall

Pushed == npush["A"] + npush["B"]

\* the bound on the entries pushed under Spec
MayPush(c, n) ==
  /\ Pushed + n <= MaxPush
  /\ c = "B" => npush[c] + n <= MaxOther

\* the values of collection c under Spec: "A" is a Map<K, Redactable<_>>,
\* "B" a Set<K>, that is a Map<K, ()>
ValsOf(c) == IF c = "A" THEN MapVals ELSE {Unit}

\* c.insert((k, v))
Insert(c, k, v) ==
  /\ pc = "free"
  /\ MayPush(c, 1)
  /\ coll' = [coll EXCEPT ![c] = insert(@, [k |-> k, v |-> v])]
  /\ inserted' = [inserted EXCEPT ![c] = @ \cup {[k |-> k, v |-> v]}]
  /\ npush' = [npush EXCEPT ![c] = @ + 1]
  /\ UNCHANGED <<derived, iter, joinHist, call>>

\* c.join(&d, func)
Join(c, d) ==
  /\ pc = "free"
  /\ c # d
  /\ MayPush(c, Len(JoinPushes(coll[c], coll[d])))
  /\ coll' = [coll EXCEPT ![c] = join(@, coll[d])]
  /\ inserted' = [inserted EXCEPT ![c] = @ \cup Range(JoinPushes(coll[c], coll[d]))]
  /\ npush' = [npush EXCEPT ![c] = @ + Len(JoinPushes(coll[c], coll[d]))]
  /\ derived' = [derived EXCEPT ![c] = @ + Len(JoinPushes(coll[c], coll[d]))]
  /\ UNCHANGED <<iter, joinHist, call>>

\* c.restore()
Restore(c) ==
  /\ pc = "free"
  /\ coll' = [coll EXCEPT ![c] = restore(@)]
  /\ derived' = [derived EXCEPT ![c] = 0]
  /\ UNCHANGED <<npush, inserted, iter, joinHist, call>>

Next ==
  \/ \E c \in Colls : \E k \in Keys, v \in ValsOf(c) : Insert(c, k, v)
  \/ \E c \in Colls, d \in Colls : Join(c, d)
  \/ \E c \in Colls : Restore(c)

Spec == Init /\ [][Next]_vars

\* ------------------- SpecLoop: while iteration.unfinished() { guards; .. }
\* let mut iteration = Iteration::new(n), over two empty Set-backed collections
InitLoop ==
  /\ InitColl
  /\ rounds \in 0..MaxRounds
  /\ budget = rounds
  /\ changed = TRUE /\ pc = "cond" /\ guards = {}
  /\ calls = 0 /\ trues = 0
  /\ roundChg = FALSE /\ allChg = TRUE
  /\ NoCall

\* the loop condition: iteration.unfinished(); when true, the body starts by
\* taking a guard of each collection
Unfinished ==
  /\ pc = "cond"
  /\ rounds' = SaturatingSub1(rounds)
  /\ changed' = ChangedAfterCall(rounds', changed)
  /\ pc' = IF UnfinishedReturns(rounds', changed) THEN "body" ELSE "done"
  /\ guards' = IF UnfinishedReturns(rounds', changed) THEN Colls ELSE {}
  /\ calls' = calls + 1
  /\ trues' = IF UnfinishedReturns(rounds', changed) THEN trues + 1 ELSE trues
  /\ roundChg' = IF UnfinishedReturns(rounds', changed) THEN FALSE ELSE roundChg
  /\ UNCHANGED <<coll, npush, inserted, derived, budget, allChg, joinHist, call>>

\* in the body: guard.insert(k) on a Set, which is inner.insert((k, ()))
LoopInsert(c, k) ==
  /\ pc = "body"
  /\ Pushed < MaxPush
  /\ coll' = [coll EXCEPT ![c] = insert(@, [k |-> k, v |-> Unit])]
  /\ inserted' = [inserted EXCEPT ![c] = @ \cup {[k |-> k, v |-> Unit]}]
  /\ npush' = [npush EXCEPT ![c] = @ + 1]
  /\ UNCHANGED <<derived, iter, joinHist, call>>

KeysOf(s) == {s[i].k : i \in DOMAIN s}

\* the last statement of the body: a.join(&b, func)
LoopJoin ==
  /\ pc = "body"
  /\ pc' = "drop"
  /\ coll' = [coll EXCEPT !["A"] = join(@, coll["B"])]
  /\ inserted' = [inserted EXCEPT !["A"] = @ \cup Range(JoinPushes(coll["A"], coll["B"]))]
  /\ npush' = [npush EXCEPT !["A"] = @ + Len(JoinPushes(coll["A"], coll["B"]))]
  /\ derived' = [derived EXCEPT !["A"] = @ + Len(JoinPushes(coll["A"], coll["B"]))]
  /\ LET ps == Range(JoinPairs(coll["A"], coll["B"]))
     IN  /\ fired' = [a \in Keys |-> [b \in Keys |->
                        IF \E p \in ps : p[1].k = a /\ p[2].k = b
                        THEN fired[a][b] + 1 ELSE fired[a][b]]]
         /\ oldPair' = (oldPair \/ \E p \in ps :
                          /\ p[1].k \in KeysOf(for_each_stable(coll["A"]))
                          /\ p[2].k \in KeysOf(for_each_stable(coll["B"])))
  /\ UNCHANGED <<rounds, changed, guards, budget, calls, trues, roundChg, allChg, call>>

\* end of the body: the guard of c goes out of scope (Guard::drop); the loop
\* condition is evaluated again once both guards are gone
GuardDrop(c) ==
  /\ pc = "drop"
  /\ c \in guards
  /\ coll' = [coll EXCEPT ![c] = restore(@)]
  /\ changed' = ChangedAfterDrop(changed, RestoreResult(coll[c]))
  /\ roundChg' = (roundChg \/ RestoreResult(coll[c]))
  /\ guards' = guards \ {c}
  /\ pc' = IF guards' = {} THEN "cond" ELSE "drop"
  /\ allChg' = IF guards' = {} THEN (allChg /\ roundChg') ELSE allChg
  /\ derived' = [derived EXCEPT ![c] = 0]
  /\ UNCHANGED <<npush, inserted, rounds, budget, calls, trues, joinHist, call>>

NextLoop ==
  \/ Unfinished
  \/ \E c \in Colls, k \in Keys : LoopInsert(c, k)
  \/ LoopJoin
  \/ \E c \in Colls : GuardDrop(c)

SpecLoop == InitLoop /\ [][NextLoop]_vars

\* ===================================================== claims, SpecLoop
\* the keys a join can see in collection c: stable and recent, never to_add
Visible(c) == KeysOf(for_each_stable(coll[c])) \cup KeysOf(for_each_recent(coll[c]))

\* C1: for every budget N >= 1, a loop in which every round's restore()
\* reports change never makes more than N calls of unfinished(), and ends
\* after exactly N calls, the first N-1 of which returned true (N-1 runs of
\* the body) and the N-th false.
C1_ExactlyBudgetCalls ==
  (budget >= 1 /\ allChg) =>
     /\ calls <= budget
     /\ trues <= budget - 1
     /\ pc = "done" => (calls = budget /\ trues = budget - 1)

\* a loop of MaxRounds - 1 rounds, all of which changed something, has ended
C1_Witness ==
  pc = "done" /\ allChg /\ budget = MaxRounds /\ calls = budget /\ trues = budget - 1

\* C2: each call of unfinished() decrements the counter by one, saturating
\* at 0, and returns true iff the counter is still > 0 after the decrement
\* and either this is the first call or a guard dropped since the previous
\* call had its restore() return true.
C2_UnfinishedContract ==
  [][calls' = calls + 1 =>
       /\ rounds' = (IF rounds > 0 THEN rounds - 1 ELSE 0)
       /\ (pc' = "body") <=> (rounds' > 0 /\ (calls = 0 \/ roundChg))
       /\ (pc' = "done") <=> ~(rounds' > 0 /\ (calls = 0 \/ roundChg))]_vars

\* a round that changed something, then a round in which every restore()
\* returned false, then a call that returned false with budget left
C2_Witness ==
  pc = "done" /\ rounds > 0 /\ trues >= 2 /\ ~roundChg /\ Pushed > 0

\* C10 as stated: after the loop (of at least one round) the count is > 0
\* exactly when the last round changed nothing and 0 exactly when the last
\* round still produced change.
C10_CountTellsApart ==
  (pc = "done" /\ trues >= 1) =>
     /\ (rounds > 0) <=> ~roundChg
     /\ (rounds = 0) <=> roundChg

\* C10 amended: after the loop, a count > 0 implies that a last round ran
\* and changed nothing, and a last round that produced change implies a
\* count of 0 (a count of 0 alone tells nothing).
C10_CountOneSided ==
  pc = "done" =>
     /\ rounds > 0 => (trues >= 1 /\ ~roundChg)
     /\ roundChg => rounds = 0

\* both outcomes: the budget ran out while the last round produced change
C10_Witness ==
  pc = "done" /\ trues >= 1 /\ roundChg /\ rounds = 0 /\ budget >= 2

RECURSIVE JoinAll(_)
JoinAll(S) ==
  LET x == CHOOSE y \in S : TRUE
  IN  IF S = {x} THEN x ELSE ValJoin(x, JoinAll(S \ {x}))

\* a single fold of the entries es, read from key k on: every key once, in
\* ascending order, with the join of the values given for it
RECURSIVE FoldFrom(_, _)
FoldFrom(es, k) ==
  IF k > MaxKey THEN <<>>
  ELSE (IF \E e \in es : e.k = k
        THEN <<[k |-> k, v |-> JoinAll({e.v : e \in {d \in es : d.k = k}})]>>
        ELSE <<>>) \o FoldFrom(es, k + 1)

\* the entries held in stable, read in key order
StableInKeyOrder(m) == SortByKey(for_each_stable(m))

\* stable batches st hold key x.k with a value equal to or greater than x.v
Dominated(x, st) ==
  \E y \in Range(Flatten(st)) :
     y.k = x.k /\ ValPartialCmp(x.v, y.v) \in {"Less", "Equal"}

\* C3: once restore() has returned false (recent and to_add are empty), the
\* entries of stable read in key order are the fold of all inserted entries.
C3_IncrementalEqualsFold ==
  \A c \in Colls :
     (coll[c].recent = <<>> /\ coll[c].to_add = <<>>)
        => StableInKeyOrder(coll[c]) = FoldFrom(inserted[c], 1)

\* C4: restore() keeps in recent every to_add entry that stable (with the
\* old recent merged into it) does not dominate.
C4_NoNewInformationLost ==
  [][\A c \in Colls : Restore(c) =>
        \A i \in DOMAIN coll[c].to_add :
           ~Dominated(coll[c].to_add[i], coll'[c].stable)
              => coll[c].to_add[i] \in Range(coll'[c].recent)]_vars

\* C5: restore() drops every to_add entry that stable (with the old recent
\* merged into it) dominates; it does not reach recent.
C5_DominatedDropped ==
  [][\A c \in Colls : Restore(c) =>
        \A i \in DOMAIN coll[c].to_add :
           Dominated(coll[c].to_add[i], coll'[c].stable)
              => coll[c].to_add[i] \notin Range(coll'[c].recent)]_vars

\* C8: every key occurs at most once in the whole of stable.
C8_StableKeysUnique ==
  \A c \in Colls :
     LET all == for_each_stable(coll[c])
     IN  \A i \in DOMAIN all, j \in DOMAIN all : i # j => all[i].k # all[j].k

\* C9: every stable batch is non-empty and more than twice as long as the
\* batch that follows it.
C9_SizeTiered ==
  \A c \in Colls :
     LET st == coll[c].stable
     IN  \A i \in DOMAIN st :
            /\ Len(st[i]) > 0
            /\ i < Len(st) => Len(st[i]) > 2 * Len(st[i + 1])

\* two batches: the last restore() pushed a run without merging
C9_Witness ==
  \E c \in Colls : Len(coll[c].stable) >= 2

\* entry y of the new stable comes from the old stable and recent of m alone
FromStableOrRecent(y, m) ==
  LET old == {x \in Range(for_each_stable(m)) \cup Range(for_each_recent(m)) : x.k = y.k}
  IN  /\ old # {}
      /\ ValPartialCmp(y.v, JoinAll({x.v : x \in old})) \in {"Less", "Equal"}

Absent == "absent"

RECURSIVE MapFrom(_, _)
MapFrom(f, k) ==
  IF k > MaxKey THEN <<>>
  ELSE (IF f[k] = Absent THEN <<>> ELSE <<[k |-> k, v |-> f[k]]>>) \o MapFrom(f, k + 1)

SortedMaps == {MapFrom(f, 1) : f \in [Keys -> MapVals \cup {Absent}]}

\* bool::cmp: false < true
BoolCmp(x, y) == IF x = y THEN "Equal" ELSE IF x THEN "Greater" ELSE "Less"

\* the while loop of MapLattice::partial_cmp.  seen holds the loop states
\* passed so far: the loop is deterministic, so a state met again is met
\* for ever, and the call does not return ("NoReturn").
RECURSIVE PartialCmpLoop(_, _, _, _, _)
PartialCmpLoop(left, right, greater, less, seen) ==
  IF left = <<>> THEN BoolCmp(greater, less)
  ELSE IF <<left, right, greater, less>> \in seen THEN "NoReturn"
  ELSE
    LET k1 == left[1].k
        v1 == left[1].v
        step == gallop(right, {y \in Range(right) : y.k < k1})
        \* other contains keys we skipped over
        less1 == IF step # right THEN TRUE ELSE less
        now == seen \cup {<<left, right, greater, less>>}
    IN  IF step # <<>> /\ step[1].k = k1
        THEN LET cmp == ValPartialCmp(v1, step[1].v)
             IN  IF cmp = "Less" /\ ~greater
                   THEN PartialCmpLoop(step, left, TRUE, greater, now)
                 ELSE IF cmp = "Greater" /\ ~less1
                   THEN PartialCmpLoop(step, left, less1, TRUE, now)
                 ELSE IF cmp = "Equal"
                   THEN PartialCmpLoop(step, left, less1, greater, now)
                 ELSE "None"
        \* self contains a key not in other
        ELSE IF ~less1
               THEN PartialCmpLoop(step, left, less1, TRUE, now)
             ELSE "None"

\* MapLattice::partial_cmp: "Less" | "Equal" | "Greater" | "None", or
\* "NoReturn" when the loop does not end
MapLatticePartialCmp(self, other) ==
  PartialCmpLoop(self, other, Len(self) > Len(other), Len(self) < Len(other), {})

\* MapLattice::join: the map returned, when self.partial_cmp(&other) returns
MapLatticeJoin(self, other) ==
  LET cmp == MapLatticePartialCmp(self, other)
  IN  IF cmp \in {"Greater", "Equal"} THEN self
      ELSE IF cmp = "Less" THEN other
      ELSE SortByKey(self \o other)

\* what a call that returns v leaves in ret
Done(v) == [done |-> TRUE, val |-> v]

\* ------------------------- SpecMapLattice: one call on two sorted maps
InitMapLattice ==
  /\ EngineIdle
  /\ argA \in SortedMaps /\ argB \in SortedMaps /\ argC = <<>>
  /\ op = "none" /\ ret = [done |-> FALSE]

\* argA.join(argB)
CallMapLatticeJoin ==
  /\ op = "none"
  /\ op' = "join"
  /\ ret' = IF MapLatticePartialCmp(argA, argB) = "NoReturn" THEN [done |-> FALSE]
             ELSE Done(MapLatticeJoin(argA, argB))
  /\ UNCHANGED <<engine, argA, argB, argC>>

\* argA.partial_cmp(&argB)
CallMapLatticePartialCmp ==
  /\ op = "none"
  /\ op' = "partial_cmp"
  /\ ret' = IF MapLatticePartialCmp(argA, argB) = "NoReturn" THEN [done |-> FALSE]
             ELSE Done(MapLatticePartialCmp(argA, argB))
  /\ UNCHANGED <<engine, argA, argB, argC>>

NextMapLattice ==
  \/ CallMapLatticeJoin
  \/ CallMapLatticePartialCmp

SpecMapLattice == InitMapLattice /\ [][NextMapLattice]_vars

\* ---------------------------------------------- claims, SpecMapLattice
KeySet(m) == {m[i].k : i \in DOMAIN m}
\* the value map m holds at key k, which is one of its keys
ValAt(m, k) == (CHOOSE e \in Range(m) : e.k = k).v

\* the map with sorted unique keys that holds the union of the keys of x and
\* y, the join of both values at a shared key and the one value elsewhere
UnionMap(x, y) ==
  MapFrom([k \in Keys |->
             IF k \in KeySet(x) /\ k \in KeySet(y) THEN ValJoin(ValAt(x, k), ValAt(y, k))
             ELSE IF k \in KeySet(x) THEN ValAt(x, k)
             ELSE IF k \in KeySet(y) THEN ValAt(y, k)
             ELSE Absent], 1)

\* C11: join(a, b) of two maps with sorted unique keys returns the map with
\* sorted unique keys that holds the union of both key sets, the join of the
\* two values at a key of both and the one value at a key of one; so
\* join(a, bottom) = join(bottom, a) = a and join(a, a) = a.
C11_JoinIsUnion ==
  op = "join" => (ret.done /\ ret.val = UnionMap(argA, argB))

\* every key of x is a key of y, with a value of x less than or equal to y's
MapLeq(x, y) ==
  \A k \in KeySet(x) :
     k \in KeySet(y) /\ ValPartialCmp(ValAt(x, k), ValAt(y, k)) \in {"Less", "Equal"}

\* the map order
MapOrder(x, y) ==
  IF x = y THEN "Equal"
  ELSE IF MapLeq(x, y) THEN "Less"
  ELSE IF MapLeq(y, x) THEN "Greater"
  ELSE "None"

\* C12: partial_cmp(a, b) returns the map order: Equal iff a and b have the
\* same keys and equal values, Less iff every key of a is in b with a's value
\* <= b's value and they differ, Greater in the mirrored case, None
\* otherwise; so the empty map is Less-or-Equal to every map and every
\* non-empty map is Greater than the empty map.
C12_PartialCmpIsMapOrder ==
  op = "partial_cmp" => (ret.done /\ ret.val = MapOrder(argA, argB))

\* =================================================================== Set
\* Set<K>: inner, a BTreeSet<K>, here a set of members of 1..MaxElem
Elems == 1..MaxElem
Sets == SUBSET Elems

\* Set::partial_cmp: is_superset is asked first
SetPartialCmp(self, other) ==
  IF other \subseteq self THEN "Greater"
  ELSE IF self \subseteq other THEN "Less"
  ELSE "None"

\* a slip of SetJoin: the None arm keeps the larger set and extends nothing
SetJoinNoExtend(self, other) ==
  LET cmp == SetPartialCmp(self, other)
  IN  IF cmp \in {"Greater", "Equal"} THEN self
      ELSE IF cmp = "Less" THEN other
      ELSE IF Cardinality(self) < Cardinality(other) THEN other ELSE self

\* Set::join; in the None arm the smaller set is moved into the larger one
SetJoin(self, other) ==
  LET cmp == SetPartialCmp(self, other)
  IN  IF cmp \in {"Greater", "Equal"} THEN self
      ELSE IF cmp = "Less" THEN other
      ELSE LET big == IF Cardinality(self) < Cardinality(other) THEN other ELSE self
               small == IF Cardinality(self) < Cardinality(other) THEN self ELSE other
           IN  big \cup small

\* PartialOrd::gt, lt and le as the standard library derives them from
\* partial_cmp
SetGt(x, y) == SetPartialCmp(x, y) = "Greater"
SetLt(x, y) == SetPartialCmp(x, y) = "Less"
SetLe(x, y) == SetPartialCmp(x, y) \in {"Less", "Equal"}

\* --------------------------------------- SpecSet: one call on two Sets
InitSet ==
  /\ EngineIdle
  /\ argA \in Sets /\ argB \in Sets /\ argC = <<>>
  /\ op = "none" /\ ret = [done |-> FALSE]

\* argA.partial_cmp(&argB)
CallSetPartialCmp ==
  /\ op = "none"
  /\ op' = "partial_cmp"
  /\ ret' = Done(SetPartialCmp(argA, argB))
  /\ UNCHANGED <<engine, argA, argB, argC>>

\* argA <= argB, as in assert!(bottom <= a)
CallSetLe ==
  /\ op = "none"
  /\ op' = "le"
  /\ ret' = Done(SetLe(argA, argB))
  /\ UNCHANGED <<engine, argA, argB, argC>>

\* argA.join(argB)
CallSetJoin ==
  /\ op = "none"
  /\ op' = "join"
  /\ ret' = Done(SetJoin(argA, argB))
  /\ UNCHANGED <<engine, argA, argB, argC>>

NextSet ==
  \/ CallSetPartialCmp
  \/ CallSetLe
  \/ CallSetJoin

SpecSet == InitSet /\ [][NextSet]_vars

\* ----------------------------------------------------- claims, SpecSet
\* the subset order
SubsetOrder(x, y) ==
  IF x = y THEN "Equal"
  ELSE IF x \subseteq y THEN "Less"
  ELSE IF y \subseteq x THEN "Greater"
  ELSE "None"

\* C15: partial_cmp reports the subset order exactly: Equal iff the two sets
\* are equal, Less iff self is a strict subset, Greater iff self is a strict
\* superset, None otherwise; hence bottom <= a for every set a, the empty
\* set included, and a <= a for every a.
C15_SetCmpIsSubsetOrder ==
  /\ op = "partial_cmp" => ret.val = SubsetOrder(argA, argB)
  /\ (op = "le" /\ (argA = {} \/ argA = argB)) => ret.val = TRUE

\* ======================================================= tree-backed Map
\* Map<K, V>: inner, a BTreeMap<K, V>, here a function from some keys of
\* 1..MaxKey to Set values
TreeMaps == UNION {[D -> Sets] : D \in SUBSET Keys}

\* the keys of S in ascending order, from key k on
RECURSIVE KeysFrom(_, _)
KeysFrom(S, k) ==
  IF k > MaxKey THEN <<>>
  ELSE (IF k \in S THEN <<k>> ELSE <<>>) \o KeysFrom(S, k + 1)

\* the second loop of Map::partial_cmp, over the keys ks of other
RECURSIVE TreeCmpLoop(_, _, _, _, _)
TreeCmpLoop(self, other, ks, greater, less) ==
  IF ks = <<>> THEN BoolCmp(greater, less)
  ELSE LET k == Head(ks)
           v == other[k]
           greater1 == IF k \in DOMAIN self /\ SetGt(self[k], v) THEN TRUE ELSE greater
           less1 == IF k \in DOMAIN self
                    THEN (IF ~SetGt(self[k], v) /\ SetLt(self[k], v) THEN TRUE ELSE less)
                    ELSE TRUE
       IN  \* an inconsistency means there is no order.
           IF greater1 /\ less1 THEN "None"
           ELSE TreeCmpLoop(self, other, Tail(ks), greater1, less1)

\* Map::partial_cmp
TreeMapPartialCmp(self, other) ==
  TreeCmpLoop(self, other, KeysFrom(DOMAIN other, 1),
              \E k \in DOMAIN self : k \notin DOMAIN other, FALSE)

\* Map::insert
TreeMapInsert(m, k, value) ==
  IF k \in DOMAIN m THEN [m EXCEPT ![k] = SetJoin(@, value)]
  ELSE [j \in DOMAIN m \cup {k} |-> IF j = k THEN value ELSE m[j]]

\* for (k, v) in other.inner { self.insert(k, v) }
RECURSIVE InsertAll(_, _, _)
InsertAll(self, other, ks) ==
  IF ks = <<>> THEN self
  ELSE InsertAll(TreeMapInsert(self, Head(ks), other[Head(ks)]), other, Tail(ks))

\* Map::join
TreeMapJoin(self, other) ==
  LET cmp == TreeMapPartialCmp(self, other)
  IN  IF cmp \in {"Greater", "Equal"} THEN self
      ELSE IF cmp = "Less" THEN other
      ELSE LET swap == Cardinality(DOMAIN self) < Cardinality(DOMAIN other)
               big == IF swap THEN other ELSE self
               small == IF swap THEN self ELSE other
           IN  InsertAll(big, small, KeysFrom(DOMAIN small, 1))

\* ------------------------------ SpecTreeMap: one call on two tree Maps
InitTreeMap ==
  /\ EngineIdle
  /\ argA \in TreeMaps /\ argB \in TreeMaps /\ argC = <<>>
  /\ op = "none" /\ ret = [done |-> FALSE]

\* argA.join(argB)
CallTreeMapJoin ==
  /\ op = "none"
  /\ op' = "join"
  /\ ret' = Done(TreeMapJoin(argA, argB))
  /\ UNCHANGED <<engine, argA, argB, argC>>

\* argA.partial_cmp(&argB)
CallTreeMapPartialCmp ==
  /\ op = "none"
  /\ op' = "partial_cmp"
  /\ ret' = Done(TreeMapPartialCmp(argA, argB))
  /\ UNCHANGED <<engine, argA, argB, argC>>

NextTreeMap ==
  \/ CallTreeMapJoin
  \/ CallTreeMapPartialCmp

SpecTreeMap == InitTreeMap /\ [][NextTreeMap]_vars

\* ------------------------------------------------- claims, SpecTreeMap
\* the map that holds the union of the keys of x and y, the union of both
\* values at a shared key and the one value elsewhere
TreeUnion(x, y) ==
  [k \in DOMAIN x \cup DOMAIN y |->
     IF k \in DOMAIN x /\ k \in DOMAIN y THEN x[k] \cup y[k]
     ELSE IF k \in DOMAIN x THEN x[k] ELSE y[k]]

\* C13: join(a, b) has as keys the union of both key sets, at each shared
\* key the join of the two values and at each unshared key the value of the
\* map that has it, whichever operand is larger and in either operand order.
C13_TreeJoinIsUnion ==
  op = "join" => (ret.done /\ ret.val = TreeUnion(argA, argB))

\* every key of x is a key of y, with a value that is a subset of y's
TreeLeq(x, y) == \A k \in DOMAIN x : k \in DOMAIN y /\ x[k] \subseteq y[k]

\* C14: partial_cmp(a, b) returns Equal only when a == b, None whenever the
\* two maps disagree in direction (also when the values at a shared key are
\* incomparable), and Less or Greater only when every key and value of one
\* map is dominated by the other.
C14_TreeCmpIsMapOrder ==
  (op = "partial_cmp" /\ ret.done) =>
     /\ ret.val = "Equal" => argA = argB
     /\ ret.val = "Less" => TreeLeq(argA, argB)
     /\ ret.val = "Greater" => TreeLeq(argB, argA)
     /\ (~TreeLeq(argA, argB) /\ ~TreeLeq(argB, argA)) => ret.val = "None"

\* ============================================================ Max, Min
Ints == 0..MaxInt

\* Ord::cmp on T
IntCmp(x, y) == IF x = y THEN "Equal" ELSE IF x < y THEN "Less" ELSE "Greater"

\* Max::partial_cmp and Max::join, on the wrapped integers
MaxPartialCmp(x, y) == IntCmp(x, y)
MaxJoin(x, y) == IF x >= y THEN x ELSE y
\* Max::default(): T::min_value()
MaxBottom == 0

\* Min::partial_cmp (the inverted ordering) and Min::join
MinPartialCmp(x, y) ==
  IF IntCmp(x, y) = "Less" THEN "Greater"
  ELSE IF IntCmp(x, y) = "Greater" THEN "Less"
  ELSE "Equal"
MinJoin(x, y) == IF x <= y THEN x ELSE y
\* Min::default(): T::max_value()
MinBottom == MaxInt

\* ========================================================= GuardedPair
\* GuardedPair<G, V> with V = Max<T> and G either Min<T> or Set<K>.  A guard
\* is [t |-> "Min", n |-> i, s |-> {}] or [t |-> "Set", n |-> 0, s |-> S].
MinGuards == {[t |-> "Min", n |-> i, s |-> {}] : i \in Ints}
SetGuards == {[t |-> "Set", n |-> 0, s |-> S] : S \in Sets}

\* G::partial_cmp
GuardPartialCmp(g, h) ==
  IF g.t = "Min" THEN MinPartialCmp(g.n, h.n) ELSE SetPartialCmp(g.s, h.s)

\* G::join
GuardJoin(g, h) ==
  IF g.t = "Min" THEN [g EXCEPT !.n = MinJoin(g.n, h.n)]
  ELSE [g EXCEPT !.s = SetJoin(g.s, h.s)]

\* G::default()
GuardBottom(t) ==
  IF t = "Min" THEN [t |-> "Min", n |-> MinBottom, s |-> {}]
  ELSE [t |-> "Set", n |-> 0, s |-> {}]

\* the pairs of one guard type
PairsOf(G) == {[guard |-> g, value |-> v] : g \in G, v \in Ints}

\* GuardedPair::partial_cmp
GuardedPairPartialCmp(self, other) ==
  IF GuardPartialCmp(self.guard, other.guard) = "Equal"
  THEN MaxPartialCmp(self.value, other.value)
  ELSE GuardPartialCmp(self.guard, other.guard)

\* GuardedPair::join
GuardedPairJoin(self, other) ==
  LET cmp == GuardPartialCmp(self.guard, other.guard)
  IN  IF cmp = "Greater" THEN self
      ELSE IF cmp = "Less" THEN other
      ELSE IF cmp = "Equal"
        THEN [self EXCEPT !.value = MaxJoin(self.value, other.value)]
      ELSE [guard |-> GuardJoin(self.guard, other.guard),
            value |-> MaxJoin(self.value, other.value)]

\* GuardedPair::default()
GuardedPairBottom(t) == [guard |-> GuardBottom(t), value |-> MaxBottom]

\* fold([x, y]): S::default() joined with x, then with y
GuardedPairFold2(x, y) ==
  GuardedPairJoin(GuardedPairJoin(GuardedPairBottom(x.guard.t), x), y)

\* the assertions of partially_verify_semilattice_laws for one choice of
\* a, b and c among the samples: which of them pass
GuardedPairLaws(x, y, z) ==
  LET bottom == GuardedPairBottom(x.guard.t)
      ab == GuardedPairFold2(x, y)
      cmp == GuardedPairPartialCmp(x, y)
  IN  [bottom |-> GuardedPairPartialCmp(bottom, x) \in {"Less", "Equal"},
       associative |-> GuardedPairFold2(ab, z) = GuardedPairFold2(x, GuardedPairFold2(y, z)),
       commutative |-> ab = GuardedPairFold2(y, x),
       order |-> IF cmp \in {"Greater", "Equal"} THEN ab = x
                 ELSE IF cmp = "Less" THEN ab = y
                 ELSE ab # x /\ ab # y,
       idempotent |-> x = GuardedPairFold2(x, x)]

\* ------------- SpecGuardedPair: one call on pairs of one guard type
InitGuardedPair ==
  /\ EngineIdle
  /\ \E G \in {MinGuards, SetGuards} :
        argA \in PairsOf(G) /\ argB \in PairsOf(G) /\ argC \in PairsOf(G)
  /\ op = "none" /\ ret = [done |-> FALSE]

\* argA.join(argB)
CallGuardedPairJoin ==
  /\ op = "none"
  /\ op' = "join"
  /\ ret' = Done(GuardedPairJoin(argA, argB))
  /\ UNCHANGED <<engine, argA, argB, argC>>

\* argA.partial_cmp(&argB)
CallGuardedPairPartialCmp ==
  /\ op = "none"
  /\ op' = "partial_cmp"
  /\ ret' = Done(GuardedPairPartialCmp(argA, argB))
  /\ UNCHANGED <<engine, argA, argB, argC>>

\* the body of partially_verify_semilattice_laws for a, b, c
CallGuardedPairLaws ==
  /\ op = "none"
  /\ op' = "laws"
  /\ ret' = Done(GuardedPairLaws(argA, argB, argC))
  /\ UNCHANGED <<engine, argA, argB, argC>>

NextGuardedPair ==
  \/ CallGuardedPairJoin
  \/ CallGuardedPairPartialCmp
  \/ CallGuardedPairLaws

SpecGuardedPair == InitGuardedPair /\ [][NextGuardedPair]_vars

\* --------------------------------------------- claims, SpecGuardedPair
\* the order of the guard lattice: Min is the inverted integer order, Set
\* the subset order
GuardOrder(g, h) ==
  IF g.t = "Min"
  THEN (IF g.n = h.n THEN "Equal" ELSE IF g.n < h.n THEN "Greater" ELSE "Less")
  ELSE SubsetOrder(g.s, h.s)

\* the least upper bound of two guards
GuardLub(g, h) ==
  IF g.t = "Min" THEN [g EXCEPT !.n = IF g.n < h.n THEN g.n ELSE h.n]
  ELSE [g EXCEPT !.s = g.s \cup h.s]

\* C16: join follows the guard: when one operand's guard is strictly
\* greater the result is that operand unchanged, when the guards are equal
\* the result keeps the guard and joins the two values, and when the guards
\* are incomparable the result joins both guards and both values.
C16_JoinFollowsGuard ==
  op = "join" =>
    LET o == GuardOrder(argA.guard, argB.guard)
        v == IF argA.value >= argB.value THEN argA.value ELSE argB.value
    IN  /\ o = "Greater" => ret.val = argA
        /\ o = "Less" => ret.val = argB
        /\ o = "Equal" => ret.val = [guard |-> argA.guard, value |-> v]
        /\ o = "None" => ret.val = [guard |-> GuardLub(argA.guard, argB.guard), value |-> v]

\* C17: join is associative, commutative and idempotent and agrees with
\* partial_cmp, for totally ordered guards and for partially ordered ones:
\* every assertion of the law check passes for every a, b and c.
C17_GuardedPairLaws ==
  op = "laws" =>
    /\ ret.val.bottom
    /\ ret.val.associative
    /\ ret.val.commutative
    /\ ret.val.order
    /\ ret.val.idempotent

\* ========================================================== Redactable
\* every value of Redactable<T>
Redactables == {Uninitialized} \cup Data \cup {Redacted}

\* ----------- SpecRedactable: a register, joined with value after value
\* argA is the register, argC the values joined into it so far
InitRedactable ==
  /\ EngineIdle
  /\ argA \in Redactables /\ argB = <<>> /\ argC = <<>>
  /\ op = "none" /\ ret = [done |-> FALSE]

\* register = register.join(v)
RegisterJoin(v) ==
  /\ Len(argC) < MaxJoins
  /\ argA' = ValJoin(argA, v)
  /\ argB' = v
  /\ argC' = Append(argC, v)
  /\ op' = "join"
  /\ ret' = Done(ValJoin(argA, v))
  /\ UNCHANGED engine

NextRedactable == \E v \in Redactables : RegisterJoin(v)

SpecRedactable == InitRedactable /\ [][NextRedactable]_vars

\* ---------------------------------------------- claims, SpecRedactable
\* C18: a register that holds Data(x) holds Data(x) or Redacted after every
\* join, never another Data(y) and never Uninitialized, and a register that
\* holds Redacted holds Redacted after every join; so this is true of every
\* sequence of joins.
C18_WriteOnceTombstone ==
  [][/\ argA \in Data => argA' \in {argA, Redacted}
     /\ argA = Redacted => argA' = Redacted]_vars

\* a register that was written, redacted and then joined with Data again
C18_Witness ==
  /\ argA = Redacted
  /\ \E i \in DOMAIN argC, j \in DOMAIN argC, x \in Data :
        /\ i < j /\ j < Len(argC)
        /\ argC[i] = x /\ argC[j] = Redacted /\ argC[Len(argC)] \in Data

\* ========================================================== VecLattice
\* a slip of HelperLoop: the match arms have no `if !greater`, `if !less`
RECURSIVE HelperLoopUnguarded(_, _, _)
HelperLoopUnguarded(orders, greater, less) ==
  IF orders = <<>> THEN BoolCmp(greater, less)
  ELSE IF Head(orders) = "Less" THEN HelperLoopUnguarded(Tail(orders), greater, TRUE)
  ELSE IF Head(orders) = "Greater" THEN HelperLoopUnguarded(Tail(orders), TRUE, less)
  ELSE IF Head(orders) = "Equal" THEN HelperLoopUnguarded(Tail(orders), greater, less)
  ELSE "None"

\* the for loop of partial_ord_helper over the orderings not yet read
RECURSIVE HelperLoop(_, _, _)
HelperLoop(orders, greater, less) ==
  IF orders = <<>> THEN BoolCmp(greater, less)
  ELSE IF Head(orders) = "Less" /\ ~greater THEN HelperLoop(Tail(orders), greater, TRUE)
  ELSE IF Head(orders) = "Greater" /\ ~less THEN HelperLoop(Tail(orders), TRUE, less)
  ELSE IF Head(orders) = "Equal" THEN HelperLoop(Tail(orders), greater, less)
  ELSE "None"

\* partial_ord_helper
partial_ord_helper(orders) == HelperLoop(orders, FALSE, FALSE)

\* VecLattice<Max<T>>: inner, a Vec of at most MaxVecLen elements.  Max and
\* Min of the semilog crate compare and join as those of the semilattice
\* crate do.
Vecs == UNION {[1..n -> Ints] : n \in 0..MaxVecLen}

\* self.inner.iter().zip(&other.inner): the shorter length
ZipLen(x, y) == IF Len(x) <= Len(y) THEN Len(x) ELSE Len(y)

\* VecLattice::partial_cmp
VecPartialCmp(self, other) ==
  partial_ord_helper(<<
    IntCmp(Len(self), Len(other)),
    partial_ord_helper([i \in 1..ZipLen(self, other) |-> MaxPartialCmp(self[i], other[i])])
  >>)

\* VecLattice::join
VecJoin(self, other) ==
  LET cmp == VecPartialCmp(self, other)
  IN  IF cmp \in {"Greater", "Equal"} THEN self
      ELSE IF cmp = "Less" THEN other
      ELSE [i \in 1..Len(self) |->
              IF i <= ZipLen(self, other) THEN MaxJoin(self[i], other[i]) ELSE self[i]]

\* ------------------------------- SpecVec: one call on two VecLattices
InitVec ==
  /\ EngineIdle
  /\ argA \in Vecs /\ argB \in Vecs /\ argC = <<>>
  /\ op = "none" /\ ret = [done |-> FALSE]

\* argA.join(argB)
CallVecJoin ==
  /\ op = "none"
  /\ op' = "join"
  /\ ret' = Done(VecJoin(argA, argB))
  /\ UNCHANGED <<engine, argA, argB, argC>>

\* argA.partial_cmp(&argB)
CallVecPartialCmp ==
  /\ op = "none"
  /\ op' = "partial_cmp"
  /\ ret' = Done(VecPartialCmp(argA, argB))
  /\ UNCHANGED <<engine, argA, argB, argC>>

NextVec ==
  \/ CallVecJoin
  \/ CallVecPartialCmp

SpecVec == InitVec /\ [][NextVec]_vars

\* ----------------------------------------------------- claims, SpecVec
\* the positional join: as long as the longer vector, the maximum of both
\* elements below both lengths and the longer vector's element beyond
PositionalJoin(x, y) ==
  [i \in 1..(IF Len(x) >= Len(y) THEN Len(x) ELSE Len(y)) |->
     IF i <= Len(x) /\ i <= Len(y) THEN (IF x[i] >= y[i] THEN x[i] ELSE y[i])
     ELSE IF i <= Len(x) THEN x[i] ELSE y[i]]

\* C19: join is positional for every pair of vectors: the result has length
\* max(len(a), len(b)), position i below both lengths holds join(a[i], b[i])
\* and every position beyond the shorter vector holds the longer vector's
\* element; so join(a, b) = join(b, a) also when the shorter vector has the
\* greater elements.
C19_VecJoinPositional ==
  op = "join" =>
     /\ ret.val = PositionalJoin(argA, argB)
     /\ ret.val = VecJoin(argB, argA)

\* ============================================================ Interval
\* Interval<T>: lower, a Max<T>, and upper, a Min<T>, with T = 0..MaxBound
Bounds == 0..MaxBound

\* Interval::top(): Max(T::max_value()), Min(T::min_value())
IntervalTop == [lower |-> MaxBound, upper |-> 0]

\* Interval::from((lower, upper))
IntervalFrom(lower, upper) ==
  IF lower <= upper THEN [lower |-> lower, upper |-> upper] ELSE IntervalTop

\* the valid intervals: lower <= upper
Intervals == {IntervalFrom(l, u) : l \in Bounds, u \in Bounds} \ {IntervalTop}

\* Interval::partial_cmp
IntervalPartialCmp(self, other) ==
  partial_ord_helper(<<MaxPartialCmp(self.lower, other.lower),
                       MinPartialCmp(self.upper, other.upper)>>)

\* a slip of IntervalJoin: the bounds are joined the other way round
IntervalJoinWiden(self, other) ==
  LET lower == MinJoin(self.lower, other.lower)
      upper == MaxJoin(self.upper, other.upper)
  IN  IF lower <= upper THEN [lower |-> lower, upper |-> upper] ELSE IntervalTop

\* a slip of IntervalJoin: crossed bounds are returned as they are
IntervalJoinNoCollapse(self, other) ==
  [lower |-> MaxJoin(self.lower, other.lower), upper |-> MinJoin(self.upper, other.upper)]

\* Interval::join
IntervalJoin(self, other) ==
  LET lower == MaxJoin(self.lower, other.lower)
      upper == MinJoin(self.upper, other.upper)
  IN  IF lower <= upper THEN [lower |-> lower, upper |-> upper] ELSE IntervalTop

\* ---------------------------- SpecInterval: one call on two Intervals
InitInterval ==
  /\ EngineIdle
  /\ argA \in Intervals /\ argB \in Intervals /\ argC = <<>>
  /\ op = "none" /\ ret = [done |-> FALSE]

\* argA.join(argB)
CallIntervalJoin ==
  /\ op = "none"
  /\ op' = "join"
  /\ ret' = Done(IntervalJoin(argA, argB))
  /\ UNCHANGED <<engine, argA, argB, argC>>

\* argA.partial_cmp(&argB)
CallIntervalPartialCmp ==
  /\ op = "none"
  /\ op' = "partial_cmp"
  /\ ret' = Done(IntervalPartialCmp(argA, argB))
  /\ UNCHANGED <<engine, argA, argB, argC>>

NextInterval ==
  \/ CallIntervalJoin
  \/ CallIntervalPartialCmp

SpecInterval == InitInterval /\ [][NextInterval]_vars

\* ------------------------------------------------ claims, SpecInterval
\* the points of an interval
Points(i) == {n \in Bounds : i.lower <= n /\ n <= i.upper}

\* C20 as stated: the joined interval contains every point of both
\* operands: its lower bound is <= both lower bounds and its upper bound is
\* >= both upper bounds.
C20_JoinWidens ==
  op = "join" =>
     /\ ret.val.lower <= argA.lower /\ ret.val.lower <= argB.lower
     /\ ret.val.upper >= argA.upper /\ ret.val.upper >= argB.upper

\* C20 amended: the joined interval holds exactly the points both operands
\* hold: its lower bound is the greater of the two lower bounds and its
\* upper bound the smaller of the two upper bounds, and it is the top
\* element when the operands share no point.
C20_JoinNarrows ==
  op = "join" =>
     /\ Points(ret.val) = Points(argA) \cap Points(argB)
     /\ Points(argA) \cap Points(argB) # {} =>
          /\ ret.val.lower >= argA.lower /\ ret.val.lower >= argB.lower
          /\ ret.val.lower \in {argA.lower, argB.lower}
          /\ ret.val.upper <= argA.upper /\ ret.val.upper <= argB.upper
          /\ ret.val.upper \in {argA.upper, argB.upper}
     /\ Points(argA) \cap Points(argB) = {} => ret.val = IntervalTop

\* two overlapping intervals, neither inside the other, have been joined:
\* the result is smaller than both
C20_Witness ==
  /\ op = "join"
  /\ ret.val # argA /\ ret.val # argB
  /\ Points(ret.val) # {}
  /\ argA.lower < argB.lower /\ argA.upper < argB.upper

\* --------- SpecIntervalLaws: calls on three Intervals, top among them
\* the intervals From and join produce: the valid ones and top
AllIntervals == Intervals \cup {IntervalTop}

InitIntervalLaws ==
  /\ EngineIdle
  /\ argA \in AllIntervals /\ argB \in AllIntervals /\ argC \in AllIntervals
  /\ op = "none" /\ ret = [done |-> FALSE]

\* (a.join(b)).join(c), a.join(b.join(c)), a.join(b) and b.join(a)
CallIntervalJoins ==
  /\ op = "none"
  /\ op' = "joins"
  /\ ret' = Done([ab_c |-> IntervalJoin(IntervalJoin(argA, argB), argC),
                  a_bc |-> IntervalJoin(argA, IntervalJoin(argB, argC)),
                  ab |-> IntervalJoin(argA, argB),
                  ba |-> IntervalJoin(argB, argA)])
  /\ UNCHANGED <<engine, argA, argB, argC>>

NextIntervalLaws ==
  \/ CallIntervalJoin
  \/ CallIntervalPartialCmp
  \/ CallIntervalJoins

SpecIntervalLaws == InitIntervalLaws /\ [][NextIntervalLaws]_vars

\* -------------------------------------------- claims, SpecIntervalLaws
\* C21: whenever the component-wise join of two intervals has lower > upper,
\* join returns the top sentinel (lower = T::max_value, upper =
\* T::min_value); top is absorbing under join and compares greater than or
\* equal to every interval; join is associative and commutative, collapses
\* included.
C21_TopAbsorbs ==
  /\ op = "join" =>
       /\ (IF argA.lower >= argB.lower THEN argA.lower ELSE argB.lower)
            > (IF argA.upper <= argB.upper THEN argA.upper ELSE argB.upper)
            => ret.val = [lower |-> MaxBound, upper |-> 0]
       /\ (argA = IntervalTop \/ argB = IntervalTop) => ret.val = IntervalTop
  /\ (op = "partial_cmp" /\ argA = IntervalTop) => ret.val \in {"Greater", "Equal"}
  /\ (op = "partial_cmp" /\ argB = IntervalTop) => ret.val \in {"Less", "Equal"}
  /\ op = "joins" => (ret.val.ab_c = ret.val.a_bc /\ ret.val.ab = ret.val.ba)

\* a and b share no point and collapse to top, while b and c overlap: the
\* collapse happens first on one side and last on the other
C21_Witness ==
  /\ op = "joins"
  /\ argA # IntervalTop /\ argB # IntervalTop /\ argC # IntervalTop
  /\ ret.val.ab = IntervalTop
  /\ IntervalJoin(argB, argC) # IntervalTop
  /\ ret.val.ab_c = IntervalTop /\ ret.val.a_bc = IntervalTop

\* ================================================================ fold
\* i.into_iter().fold(acc, S::join) on a sequence of Sets
RECURSIVE SetFoldLoop(_, _)
SetFoldLoop(acc, i) ==
  IF i = <<>> THEN acc ELSE SetFoldLoop(SetJoin(acc, Head(i)), Tail(i))

\* Set::default()
SetBottom == {}

\* fold(i), for S = Set<K>
SetFold(i) == SetFoldLoop(SetBottom, i)

Reverse(i) == [j \in 1..Len(i) |-> i[Len(i) + 1 - j]]

\* ----------------------------- SpecFold: fold on one sequence of Sets
InitFold ==
  /\ EngineIdle
  /\ argA \in UNION {[1..n -> Sets] : n \in 0..MaxFoldLen}
  /\ argB = <<>> /\ argC = <<>>
  /\ op = "none" /\ ret = [done |-> FALSE]

\* fold(argA), fold of argA read backwards and fold of argA given twice
CallFold ==
  /\ op = "none"
  /\ op' = "fold"
  /\ ret' = Done([fold |-> SetFold(argA),
                  reversed |-> SetFold(Reverse(argA)),
                  twice |-> SetFold(argA \o argA)])
  /\ UNCHANGED <<engine, argA, argB, argC>>

NextFold == CallFold

SpecFold == InitFold /\ [][NextFold]_vars

Orderings == {"Less", "Equal", "Greater", "None"}

\* ------------ SpecHelper: partial_ord_helper on one list of orderings
InitHelper ==
  /\ EngineIdle
  /\ argA \in UNION {[1..n -> Orderings] : n \in 0..MaxFields}
  /\ argB = <<>> /\ argC = <<>>
  /\ op = "none" /\ ret = [done |-> FALSE]

\* partial_ord_helper(argA)
CallPartialOrdHelper ==
  /\ op = "none"
  /\ op' = "partial_ord_helper"
  /\ ret' = Done(partial_ord_helper(argA))
  /\ UNCHANGED <<engine, argA, argB, argC>>

NextHelper == CallPartialOrdHelper

SpecHelper == InitHelper /\ [][NextHelper]_vars

\* -------------------------------------------------- claims, SpecHelper
\* C23: partial_ord_helper returns None iff some field is None or the list
\* holds both a Less and a Greater; otherwise Greater if some field is
\* Greater, Less if some field is Less, and Equal if every field is Equal
\* (the empty list included).
C23_HelperFoldsOrderings ==
  op = "partial_ord_helper" =>
    LET fields == Range(argA)
        none == "None" \in fields \/ ("Less" \in fields /\ "Greater" \in fields)
    IN  /\ ret.val = "None" <=> none
        /\ ~none => /\ "Greater" \in fields => ret.val = "Greater"
                    /\ "Less" \in fields => ret.val = "Less"
                    /\ fields \subseteq {"Equal"} => ret.val = "Equal"

\* a list with no None field that ends in a contradiction of its direction
C23_Witness ==
  /\ op = "partial_ord_helper"
  /\ Len(argA) = 3 /\ argA[1] = "Equal" /\ argA[2] = "Greater" /\ argA[3] = "Less"
  /\ ret.val = "None"

\* ============================ Max, Min, Option, UpsideDownOption, Pair
\* One value of the five lattices the crate's check_laws tests sample:
\* [t |-> the type, some |-> FALSE for None, n |-> the integer of Max, Min,
\* Some(Max) or the Min field of the pair, m |-> the Max field of the pair]
LawTypes == {"Max", "Min", "Option", "UpsideDownOption", "Pair"}

Lat(t, some, n, m) == [t |-> t, some |-> some, n |-> n, m |-> m]

LatValues(t) ==
  IF t \in {"Max", "Min"} THEN {Lat(t, TRUE, i, 0) : i \in Ints}
  ELSE IF t \in {"Option", "UpsideDownOption"}
       THEN {Lat(t, FALSE, 0, 0)} \cup {Lat(t, TRUE, i, 0) : i \in Ints}
  ELSE {Lat(t, TRUE, i, j) : i \in Ints, j \in Ints}

\* Option<Max<T>>: the order of core's Option (None below every Some), and
\* the join that takes the other operand when one is None
OptionPartialCmp(x, y) ==
  IF ~x.some /\ ~y.some THEN "Equal"
  ELSE IF ~x.some THEN "Less"
  ELSE IF ~y.some THEN "Greater"
  ELSE MaxPartialCmp(x.n, y.n)

OptionJoin(x, y) ==
  IF ~x.some THEN y
  ELSE IF ~y.some THEN x
  ELSE Lat(x.t, TRUE, MaxJoin(x.n, y.n), 0)

\* Option::default()
OptionBottom == Lat("Option", FALSE, 0, 0)

\* UpsideDownOption::partial_cmp: None above every Some
UpsideDownOptionPartialCmp(x, y) ==
  IF ~x.some /\ ~y.some THEN "Equal"
  ELSE IF ~x.some THEN "Greater"
  ELSE IF ~y.some THEN "Less"
  ELSE MaxPartialCmp(x.n, y.n)

\* a join under which None is the identity, as it is for Option
UpsideDownOptionJoinIdentity(x, y) ==
  IF ~x.some THEN y
  ELSE IF ~y.some THEN x
  ELSE Lat(x.t, TRUE, MaxJoin(x.n, y.n), 0)

\* UpsideDownOption::join: Some only when both operands are Some
UpsideDownOptionJoin(x, y) ==
  IF x.some /\ y.some THEN Lat(x.t, TRUE, MaxJoin(x.n, y.n), 0)
  ELSE Lat(x.t, FALSE, 0, 0)

\* UpsideDownOption::default(): Some(T::default())
UpsideDownOptionBottom == Lat("UpsideDownOption", TRUE, MaxBottom, 0)

\* Pair<Min<T>, Max<T>>: the derived partial_cmp hands the fields'
\* comparisons to partial_ord_helper, the derived join joins field by field
PairPartialCmp(x, y) ==
  partial_ord_helper(<<MinPartialCmp(x.n, y.n), MaxPartialCmp(x.m, y.m)>>)

PairJoin(x, y) == Lat(x.t, TRUE, MinJoin(x.n, y.n), MaxJoin(x.m, y.m))

\* Pair::default(): the fields' defaults
PairBottom == Lat("Pair", TRUE, MinBottom, MaxBottom)

\* S::partial_cmp, S::join and S::default() for the type of the operands
LatPartialCmp(x, y) ==
  CASE x.t = "Max" -> MaxPartialCmp(x.n, y.n)
    [] x.t = "Min" -> MinPartialCmp(x.n, y.n)
    [] x.t = "Option" -> OptionPartialCmp(x, y)
    [] x.t = "UpsideDownOption" -> UpsideDownOptionPartialCmp(x, y)
    [] x.t = "Pair" -> PairPartialCmp(x, y)

LatJoin(x, y) ==
  CASE x.t = "Max" -> Lat(x.t, TRUE, MaxJoin(x.n, y.n), 0)
    [] x.t = "Min" -> Lat(x.t, TRUE, MinJoin(x.n, y.n), 0)
    [] x.t = "Option" -> OptionJoin(x, y)
    [] x.t = "UpsideDownOption" -> UpsideDownOptionJoin(x, y)
    [] x.t = "Pair" -> PairJoin(x, y)

LatBottom(t) ==
  CASE t = "Max" -> Lat(t, TRUE, MaxBottom, 0)
    [] t = "Min" -> Lat(t, TRUE, MinBottom, 0)
    [] t = "Option" -> OptionBottom
    [] t = "UpsideDownOption" -> UpsideDownOptionBottom
    [] t = "Pair" -> PairBottom

\* fold([x, y]): the default joined with x, then with y
LatFold2(x, y) == LatJoin(LatJoin(LatBottom(x.t), x), y)

\* the assertions of partially_verify_semilattice_laws for one choice of
\* a, b and c among the samples: which of them pass, and how a.join(b)
\* compares with a and with b
LatLaws(x, y, z) ==
  LET bottom == LatBottom(x.t)
      ab == LatFold2(x, y)
      cmp == LatPartialCmp(x, y)
  IN  [bottom |-> LatPartialCmp(bottom, x) \in {"Less", "Equal"},
       associative |-> LatFold2(ab, z) = LatFold2(x, LatFold2(y, z)),
       commutative |-> ab = LatFold2(y, x),
       order |-> IF cmp \in {"Greater", "Equal"} THEN ab = x
                 ELSE IF cmp = "Less" THEN ab = y
                 ELSE ab # x /\ ab # y,
       idempotent |-> x = LatFold2(x, x),
       above |-> <<LatPartialCmp(ab, x), LatPartialCmp(ab, y)>>]

\* ------------- SpecLaws: the law check on three values of one lattice
InitLaws ==
  /\ EngineIdle
  /\ \E t \in LawTypes :
        argA \in LatValues(t) /\ argB \in LatValues(t) /\ argC \in LatValues(t)
  /\ op = "none" /\ ret = [done |-> FALSE]

\* the body of partially_verify_semilattice_laws for a, b, c
CallLaws ==
  /\ op = "none"
  /\ op' = "laws"
  /\ ret' = Done(LatLaws(argA, argB, argC))
  /\ UNCHANGED <<engine, argA, argB, argC>>

\* argA.join(argB)
CallLatJoin ==
  /\ op = "none"
  /\ op' = "join"
  /\ ret' = Done(LatJoin(argA, argB))
  /\ UNCHANGED <<engine, argA, argB, argC>>

NextLaws == CallLaws \/ CallLatJoin

SpecLaws == InitLaws /\ [][NextLaws]_vars

\* ---------------------------------------------------- claims, SpecLaws
\* C24: for Max, Min, Option<Max>, UpsideDownOption<Max> and Pair<Min, Max>
\* over the bounded integers every assertion of the law check passes: the
\* default is <= a, join is associative, commutative and idempotent, and
\* a.join(b) is the greater operand when the two compare and strictly
\* greater than both when they do not; Min orders inversely to the
\* integers, None is the identity of Option and absorbs in
\* UpsideDownOption.
C24_FiveLaws ==
  /\ op = "laws" =>
       /\ ret.val.bottom /\ ret.val.associative /\ ret.val.commutative
       /\ ret.val.order /\ ret.val.idempotent
       /\ LatPartialCmp(argA, argB) = "None" =>
            ret.val.above = <<"Greater", "Greater">>
       /\ argA.t = "Min" => LatPartialCmp(argA, argB) = IntCmp(argB.n, argA.n)
  /\ op = "join" =>
       /\ (argA.t = "Option" /\ ~argA.some) => ret.val = argB
       /\ (argA.t = "Option" /\ ~argB.some) => ret.val = argA
       /\ (argA.t = "UpsideDownOption" /\ (~argA.some \/ ~argB.some)) =>
            ~ret.val.some

\* two pairs that do not compare have been checked: the join is neither
\* of them and lies above both
C24_Witness ==
  /\ op = "laws"
  /\ argA.t = "Pair"
  /\ LatPartialCmp(argA, argB) = "None"
  /\ ret.val.order
  /\ ret.val.above = <<"Greater", "Greater">>

\* ================================================ merge, on its own
\* ---------- SpecMerge: one call of merge on two sorted, key-unique runs
InitMerge ==
  /\ EngineIdle
  /\ argA \in SortedMaps /\ argB \in SortedMaps
  /\ argC = <<>>
  /\ op = "none" /\ ret = [done |-> FALSE]

\* merge(argA, argB)
CallMerge ==
  /\ op = "none"
  /\ op' = "merge"
  /\ ret' = Done(merge(argA, argB))
  /\ UNCHANGED <<engine, argA, argB, argC>>

NextMerge == CallMerge

SpecMerge == InitMerge /\ [][NextMerge]_vars

\* --------------------------------------------------- claims, SpecMerge
\* C25: merge of two runs that are sorted with unique keys returns a run
\* that is sorted, holds every key of either input exactly once and at each
\* key the join of the inputs' values for that key, in every branch.
C25_MergeIsSortedUnion ==
  op = "merge" =>
    /\ \A i \in 1..(Len(ret.val) - 1) : ret.val[i].k < ret.val[i + 1].k
    /\ KeySet(ret.val) = KeySet(argA) \cup KeySet(argB)
    /\ ret.val = UnionMap(argA, argB)

\* ================== MapLattice::partial_cmp, one loop iteration a step
\* one pass through the body of the while loop: whether it returns None,
\* and otherwise the slices and the flags after the two swaps
PartialCmpIteration(left, right, greater, less) ==
  LET k1 == left[1].k
      v1 == left[1].v
      step == gallop(right, {y \in Range(right) : y.k < k1})
      \* other contains keys we skipped over
      less1 == IF step # right THEN TRUE ELSE less
      go(g, l) == [returns |-> FALSE, left |-> step, right |-> left,
                   greater |-> l, less |-> g]
      none == [returns |-> TRUE, left |-> left, right |-> step,
               greater |-> greater, less |-> less1]
  IN  IF step # <<>> /\ step[1].k = k1
      THEN LET cmp == ValPartialCmp(v1, step[1].v)
           IN  IF cmp = "Less" /\ ~greater THEN go(greater, TRUE)
               ELSE IF cmp = "Greater" /\ ~less1 THEN go(TRUE, less1)
               ELSE IF cmp = "Equal" THEN go(greater, less1)
               ELSE none
      \* self contains a key not in other
      ELSE IF ~less1 THEN go(TRUE, less1) ELSE none

\* ------ SpecCmpLoop: a call of partial_cmp on two sorted maps; argA and
\* argB are the slices left and right, argC the flags <<greater, less>> and
\* whether left is a slice of other (the roles are swapped)
InitCmpLoop ==
  /\ EngineIdle
  /\ argA \in SortedMaps /\ argB \in SortedMaps /\ argC = <<>>
  /\ op = "none" /\ ret = [done |-> FALSE]

\* the call is entered: the flags are set from the lengths
EnterPartialCmp ==
  /\ op = "none"
  /\ op' = "partial_cmp"
  /\ argC' = <<Len(argA) > Len(argB), Len(argA) < Len(argB), FALSE>>
  /\ UNCHANGED <<engine, argA, argB, ret>>

\* left.first() is Some: one iteration of the loop
LoopIteration ==
  /\ op = "partial_cmp" /\ ~ret.done
  /\ argA # <<>>
  /\ LET it == PartialCmpIteration(argA, argB, argC[1], argC[2])
     IN  /\ argA' = it.left
         /\ argB' = it.right
         /\ argC' = <<it.greater, it.less, IF it.returns THEN argC[3] ELSE ~argC[3]>>
         /\ ret' = IF it.returns THEN Done("None") ELSE ret
  /\ UNCHANGED <<engine, op>>

\* left.first() is None: Some(greater.cmp(&less))
LoopExit ==
  /\ op = "partial_cmp" /\ ~ret.done
  /\ argA = <<>>
  /\ ret' = Done(BoolCmp(argC[1], argC[2]))
  /\ UNCHANGED <<engine, op, argA, argB, argC>>

NextCmpLoop == EnterPartialCmp \/ LoopIteration \/ LoopExit

\* the thread that made the call keeps running it
SpecCmpLoop == InitCmpLoop /\ [][NextCmpLoop]_vars /\ WF_vars(NextCmpLoop)

\* ------------------------------------------------- claims, SpecCmpLoop
\* C26: every call of MapLattice::partial_cmp returns, also on two maps
\* that share a key.
C26_PartialCmpReturns == <>(ret.done)

\* ================================================= gallop, step by step
\* step < slice.len() && cmp(&slice[step]): whether evaluating it indexes
\* outside the slice, and its value.  && does not evaluate slice[step] when
\* the length test fails.
GallopCondUnguarded(slice, step, P) ==
  [panics |-> ~(step < Len(slice)),
   holds |-> step < Len(slice) /\ slice[step + 1] \in P]

GallopCond(slice, step, P) ==
  IF step < Len(slice)
  THEN [panics |-> FALSE, holds |-> slice[step + 1] \in P]
  ELSE [panics |-> FALSE, holds |-> FALSE]

\* the elements cmp is true of: those up to p
Below(p) == 1..p

\* ---- SpecGallop: a call of gallop; argA is the slice variable, argB the
\* slice the call was given, argC the predicate's bound and the step
InitGallop ==
  /\ EngineIdle
  /\ \E n \in 0..MaxSlice, p \in 0..MaxSlice :
        /\ argA = [i \in 1..n |-> i]
        /\ argB = argA
        /\ argC = [p |-> p, step |-> 0]
  /\ op = "none" /\ ret = [done |-> FALSE]

\* if !slice.is_empty() && cmp(&slice[0]) { let mut step = 1; ... } slice
GallopEnter ==
  /\ op = "none"
  /\ IF argA # <<>> /\ argA[1] \in Below(argC.p)
     THEN /\ op' = "up"
          /\ argC' = [argC EXCEPT !.step = 1]
          /\ ret' = ret
     ELSE /\ op' = "returned"
          /\ argC' = argC
          /\ ret' = Done(argA)
  /\ UNCHANGED <<engine, argA, argB>>

\* the first while loop, and step >>= 1 when it ends
GallopUpStep ==
  /\ op = "up"
  /\ LET c == GallopCond(argA, argC.step, Below(argC.p))
     IN  IF c.panics
         THEN op' = "panicked" /\ UNCHANGED <<argA, argC>>
         ELSE IF c.holds
         THEN /\ argA' = Drop(argA, argC.step)
              /\ argC' = [argC EXCEPT !.step = 2 * argC.step]
              /\ op' = "up"
         ELSE /\ argC' = [argC EXCEPT !.step = argC.step \div 2]
              /\ op' = "down"
              /\ argA' = argA
  /\ UNCHANGED <<engine, argB, ret>>

\* the second while loop
GallopDownStep ==
  /\ op = "down"
  /\ IF argC.step > 0
     THEN LET c == GallopCond(argA, argC.step, Below(argC.p))
          IN  IF c.panics
              THEN op' = "panicked" /\ UNCHANGED <<argA, argC>>
              ELSE /\ argA' = IF c.holds THEN Drop(argA, argC.step) ELSE argA
                   /\ argC' = [argC EXCEPT !.step = argC.step \div 2]
                   /\ op' = "down"
     ELSE op' = "advance" /\ UNCHANGED <<argA, argC>>
  /\ UNCHANGED <<engine, argB, ret>>

\* slice = &slice[1..], and the return
GallopAdvance ==
  /\ op = "advance"
  /\ IF 1 <= Len(argA)
     THEN /\ argA' = Drop(argA, 1)
          /\ op' = "returned"
          /\ ret' = Done(Drop(argA, 1))
     ELSE op' = "panicked" /\ UNCHANGED <<argA, ret>>
  /\ UNCHANGED <<engine, argB, argC>>

NextGallop == GallopEnter \/ GallopUpStep \/ GallopDownStep \/ GallopAdvance

SpecGallop == InitGallop /\ [][NextGallop]_vars

\* -------------------------------------------------- claims, SpecGallop
\* the suffix from the first element cmp is false of, found one by one
RECURSIVE LinearScan(_, _)
LinearScan(slice, P) ==
  IF slice # <<>> /\ slice[1] \in P THEN LinearScan(Tail(slice), P) ELSE slice

\* C27: for a slice of any length and a predicate true on a prefix of it,
\* gallop returns the suffix that starts at the first element the predicate
\* is false of, as a linear scan does, and no step indexes outside the
\* slice.
C27_GallopIsLinearScan ==
  /\ op # "panicked"
  /\ op = "returned" =>
       /\ ret.val = LinearScan(argB, Below(argC.p))
       /\ ret.val = gallop(argB, Below(argC.p))
  /\ op \in {"up", "down", "advance"} => argA # <<>>

\* a long slice whose split point lies off the powers of two: both loops
\* have moved the slice
C27_Witness ==
  /\ op = "returned"
  /\ Len(argB) = MaxSlice /\ argC.p = 6
  /\ ret.val = Drop(argB, 6)

\* ================================================== Simple<S>, datalog.rs
\* the constants of the test check(): x.insert(5), (.. + 1).min(7) and
\* Iteration::new(50)
TestStart == 5
TestCap == 7
TestBudget == 50

\* i32::MIN and i32::MAX
I32Min == 0 - 2147483647 - 1
I32Max == 2147483647

\* Interval::<i32>::top(), Interval::default() and Interval::from
I32IntervalTop == [lower |-> I32Max, upper |-> I32Min]
I32IntervalBottom == [lower |-> I32Min, upper |-> I32Max]
I32IntervalFrom(lower, upper) ==
  IF lower <= upper THEN [lower |-> lower, upper |-> upper] ELSE I32IntervalTop

\* Interval::<i32>::join
I32IntervalJoin(self, other) ==
  LET lower == MaxJoin(self.lower, other.lower)
      upper == MinJoin(self.upper, other.upper)
  IN  IF lower <= upper THEN [lower |-> lower, upper |-> upper] ELSE I32IntervalTop

\* S::default(), S::join and S::partial_cmp for S = Max<i32> ("Max") and
\* S = Interval<i32> ("Interval")
SBottom(t) == IF t = "Max" THEN I32Min ELSE I32IntervalBottom
SJoin(t, x, y) == IF t = "Max" THEN MaxJoin(x, y) ELSE I32IntervalJoin(x, y)
SPartialCmp(t, x, y) ==
  IF t = "Max" THEN MaxPartialCmp(x, y) ELSE IntervalPartialCmp(x, y)

\* Simple::default()
SimpleDefault(t) ==
  [stable |-> SBottom(t), recent |-> SBottom(t), pending |-> SBottom(t)]

\* Simple::insert
SimpleInsert(t, s, val) == [s EXCEPT !.pending = SJoin(t, @, val)]

\* a slip of SimpleRestore: recent is dropped instead of being joined into
\* stable
SimpleRestoreForgets(t, s) ==
  [stable |-> s.stable, recent |-> s.pending, pending |-> SBottom(t)]

\* Simple::restore: the collection it leaves
SimpleRestore(t, s) ==
  [stable |-> SJoin(t, s.stable, s.recent),
   recent |-> s.pending,
   pending |-> SBottom(t)]

\* Simple::restore: the value it returns
SimpleRestoreResult(t, s) ==
  SPartialCmp(t, SimpleRestore(t, s).stable, SimpleRestore(t, s).recent)
    \in {"None", "Less"}

\* Simple::for_each_stable and Simple::for_each_recent: the values func is
\* called with
SimpleForEachStable(t, s) ==
  IF SPartialCmp(t, s.stable, SBottom(t)) = "Greater" THEN <<s.stable>> ELSE <<>>
SimpleForEachRecent(t, s) ==
  IF SPartialCmp(t, s.recent, SBottom(t)) = "Greater" THEN <<s.recent>> ELSE <<>>

\* the closure of the test: |a, b| (a.lower.0 - 1, **b), turned into an
\* Interval
TestFunc(a, b) == I32IntervalFrom(a.lower - 1, b)

RECURSIVE SimpleInsertAll(_, _, _)
SimpleInsertAll(t, s, vals) ==
  IF vals = <<>> THEN s
  ELSE SimpleInsertAll(t, SimpleInsert(t, s, Head(vals)), Tail(vals))

\* Simple::join(self, other, TestFunc), self a Simple<Interval> and other a
\* Simple<Max>
SimpleJoin(self, other) ==
  LET stableGt == SPartialCmp("Interval", self.stable, SBottom("Interval")) = "Greater"
      recentGt == SPartialCmp("Interval", self.recent, SBottom("Interval")) = "Greater"
      first == IF recentGt
               THEN [b \in DOMAIN SimpleForEachStable("Max", other) |->
                       TestFunc(self.recent, SimpleForEachStable("Max", other)[b])]
               ELSE <<>>
      rec == SimpleForEachRecent("Max", other)
      second == IF rec = <<>> THEN <<>>
                ELSE IF stableGt /\ recentGt
                  THEN <<TestFunc(self.stable, rec[1]), TestFunc(self.recent, rec[1])>>
                ELSE IF stableGt THEN <<TestFunc(self.stable, rec[1])>>
                ELSE IF recentGt THEN <<TestFunc(self.recent, rec[1])>>
                ELSE <<>>
  IN  SimpleInsertAll("Interval", self, first \o second)

\* ---- SpecSimple: the loop of check(); argA is interval, argB is x, argC
\* the start value and the cap; guard "A" is interval's, guard "B" is x's
InitSimple ==
  /\ InitColl
  /\ \E start \in 1..MaxStart, cap \in 1..MaxCap :
        /\ argC = [start |-> start, cap |-> cap]
        /\ argB = SimpleInsert("Max", SimpleDefault("Max"), start)
  /\ argA = SimpleInsert("Interval",
              SimpleInsert("Interval", SimpleDefault("Interval"),
                           I32IntervalFrom(5, 100)),
              I32IntervalFrom(3, 50))
  /\ rounds = TestBudget /\ budget = rounds
  /\ changed = TRUE /\ pc = "cond" /\ guards = {}
  /\ calls = 0 /\ trues = 0
  /\ roundChg = FALSE /\ allChg = TRUE
  /\ op = "none" /\ ret = [done |-> FALSE]

\* the body of the loop: q = (*x.recent + 1).min(cap); x.insert(q);
\* interval.join(&*x, func)
SimpleBody ==
  /\ pc = "body"
  /\ pc' = "drop"
  /\ LET q == MinJoin(argB.recent + 1, argC.cap)
         x == SimpleInsert("Max", argB, q)
     IN  /\ argB' = x
         /\ argA' = SimpleJoin(argA, x)
  /\ UNCHANGED <<coll, npush, inserted, derived, rounds, changed, guards, budget,
                 calls, trues, roundChg, allChg, joinHist, argC, op, ret>>

\* the end of the body: the guards are dropped in the reverse order of their
\* declaration, x's before interval's
SimpleGuardDrop ==
  /\ pc = "drop"
  /\ LET c == IF "B" \in guards THEN "B" ELSE "A"
         t == IF c = "B" THEN "Max" ELSE "Interval"
         s == IF c = "B" THEN argB ELSE argA
     IN  /\ argB' = IF c = "B" THEN SimpleRestore(t, s) ELSE argB
         /\ argA' = IF c = "A" THEN SimpleRestore(t, s) ELSE argA
         /\ changed' = ChangedAfterDrop(changed, SimpleRestoreResult(t, s))
         /\ roundChg' = (roundChg \/ SimpleRestoreResult(t, s))
         /\ guards' = guards \ {c}
  /\ pc' = IF guards' = {} THEN "cond" ELSE "drop"
  /\ allChg' = IF guards' = {} THEN (allChg /\ roundChg') ELSE allChg
  /\ UNCHANGED <<coll, npush, inserted, derived, rounds, budget, calls, trues,
                 joinHist, argC, op, ret>>

NextSimple == Unfinished \/ SimpleBody \/ SimpleGuardDrop

SpecSimple == InitSimple /\ [][NextSimple]_vars

\* -------------------------------------------------- claims, SpecSimple
\* a drop of a guard: the collection restored is left with the old stable
\* joined with the old recent as stable, the old pending as recent and the
\* default as pending, and the flag is raised iff the new stable is not >=
\* the new recent
RestoreStep ==
  pc = "drop" =>
    LET t == IF "B" \in guards THEN "Max" ELSE "Interval"
        old == IF "B" \in guards THEN argB ELSE argA
        new == IF "B" \in guards THEN argB' ELSE argA'
    IN  /\ new.stable = SJoin(t, old.stable, old.recent)
        /\ new.recent = old.pending
        /\ new.pending = SBottom(t)
        /\ changed' = (changed \/ SPartialCmp(t, new.stable, new.recent)
                                     \notin {"Greater", "Equal"})

\* the loop has ended: x and interval are at a fixpoint, rounds are left,
\* and the calls of unfinished() are the distance from the start to the cap
\* plus three (one round to move the start into recent, one in which nothing
\* changes, and the call that returns false)
ExitsAtFixpoint ==
  pc = "done" =>
    /\ rounds > 0 /\ rounds = budget - calls
    /\ ~changed
    /\ SPartialCmp("Max", argB.stable, argB.recent) \in {"Greater", "Equal"}
    /\ SPartialCmp("Interval", argA.stable, argA.recent) \in {"Greater", "Equal"}
    /\ argB.stable = MaxJoin(argC.start, argC.cap)
    /\ argC.start < argC.cap => calls = argC.cap - argC.start + 3
    /\ argC.start = argC.cap => calls = 4
    /\ (argC.start = TestStart /\ argC.cap = TestCap) =>
         calls = 5 /\ rounds = TestBudget - 5

\* C28: Simple::restore sets stable to the old stable joined with the old
\* recent, recent to the old pending and pending to the default, and reports
\* change iff the new stable is not >= the new recent; the loop of check(),
\* whose insert into x is capped, ends at a fixpoint with rounds left after
\* a number of calls fixed by the distance from the start to the cap: from
\* 5 to the cap 7 with 50 rounds, at the 5th call with 45 rounds left.
C28_SimpleLoopExits == [][RestoreStep]_vars /\ []ExitsAtFixpoint

\* the loop of the test has ended at its 5th call of unfinished()
C28_Witness ==
  /\ pc = "done"
  /\ argC.start = TestStart /\ argC.cap = TestCap /\ budget = TestBudget
  /\ calls = 5 /\ rounds = 45

\* ------------------------------------------- claims, Spec: stable grows
\* every entry of c's stable before the step has its key in c's stable after
\* the step, and the join of the values stable holds for that key is >= the
\* entry's value
StableGrows(c) ==
  \A y \in Range(Flatten(coll[c].stable)) :
     LET new == {x \in Range(Flatten(coll'[c].stable)) : x.k = y.k}
     IN  /\ new # {}
         /\ ValPartialCmp(y.v, JoinAll({x.v : x \in new})) \in {"Less", "Equal"}

\* C29: no insert, join or restore removes a key from stable or lowers the
\* join of the values stable holds for a key; the order being transitive,
\* stable at any point is above stable at every earlier point.
C29_StableOnlyGrows == [][\A c \in Colls : StableGrows(c)]_vars

\* restore has merged a batch of stable with recent and joined two values of
\* one key: stable holds Redacted at a key for which only Data was inserted
C29_Witness ==
  \E x \in Range(Flatten(coll["A"].stable)) :
     /\ x.v = Redacted
     /\ \A e \in inserted["A"] : e.k = x.k => e.v \in Data

\* =========================================== the threads application
\* AID::Alice and AID::Bob, by their index
Alice == 0
Bob == 1

\* Map::default(): a map is a function from the keys it holds
NoEntries == [k \in {} |-> 0]

\* Map::entry(k): the map with the default value under k when k was absent
entry(m, k, d) ==
  IF k \in DOMAIN m THEN m
  ELSE [x \in DOMAIN m \cup {k} |-> IF x = k THEN d ELSE m[x]]

\* m.entry(a).entry(n) followed by an update G of the value found there; m
\* is a map of maps, d the default of the inner values
Upd2(m, a, n, d, G(_)) ==
  LET outer == entry(m, a, NoEntries)
      inner == entry(outer[a], n, d)
  IN  [outer EXCEPT ![a] = [inner EXCEPT ![n] = G(inner[n])]]

\* Map<u64, Redactable<String>>::join: the union of the keys, the values at
\* shared keys joined
ContentJoin(self, other) ==
  [k \in DOMAIN self \cup DOMAIN other |->
     IF k \in DOMAIN self /\ k \in DOMAIN other THEN ValJoin(self[k], other[k])
     ELSE IF k \in DOMAIN self THEN self[k]
     ELSE other[k]]

\* Map<Tag, Max<u64>>::join
TagsJoin(self, other) ==
  [k \in DOMAIN self \cup DOMAIN other |->
     IF k \in DOMAIN self /\ k \in DOMAIN other THEN MaxJoin(self[k], other[k])
     ELSE IF k \in DOMAIN self THEN self[k]
     ELSE other[k]]

\* the first key of a BTreeMap or BTreeSet: u64 keys, and MessageID keys
\* (AID, u64) in lexicographic order
FirstKey(S) == CHOOSE x \in S : \A y \in S : x <= y
FirstMessageID(S) ==
  CHOOSE x \in S : \A y \in S : x[1] < y[1] \/ (x[1] = y[1] /\ x[2] <= y[2])

\* the reactions and tags in use, in the order of String
Strings == <<":+1:", ":hourglass:", "bug">>
FirstString(S) ==
  CHOOSE x \in S : \A y \in S :
     (CHOOSE i \in DOMAIN Strings : Strings[i] = x)
       <= (CHOOSE i \in DOMAIN Strings : Strings[i] = y)

\* the defaults of the derived structs
CommentDefault == [reply_to |-> {}, content |-> NoEntries]
CommentMetaDefault ==
  [comment |-> CommentDefault, reactions |-> NoEntries, responses |-> {}]
TitlesDefault == [guard |-> 0, value |-> {}]
ThreadDefault == [titles |-> TitlesDefault, tags |-> NoEntries]
ThreadSliceDefault == [titles |-> TitlesDefault, tags |-> NoEntries]
ViewDefault == [threads |-> NoEntries, comments |-> NoEntries]
SliceDefault ==
  [threads |-> NoEntries, comments |-> NoEntries,
   reactions |-> NoEntries, tags |-> NoEntries]

\* Comment::join, derived: field by field
CommentJoin(self, other) ==
  [reply_to |-> SetJoin(self.reply_to, other.reply_to),
   content |-> ContentJoin(self.content, other.content)]

\* GuardedPair<Max<u64>, Set<String>>::join
TitlesJoin(self, other) ==
  LET cmp == MaxPartialCmp(self.guard, other.guard)
  IN  IF cmp = "Greater" THEN self
      ELSE IF cmp = "Less" THEN other
      ELSE IF cmp = "Equal"
        THEN [self EXCEPT !.value = SetJoin(self.value, other.value)]
      ELSE [guard |-> MaxJoin(self.guard, other.guard),
            value |-> SetJoin(self.value, other.value)]

\* ThreadSlice::join, derived: field by field
ThreadSliceJoin(self, other) ==
  [titles |-> TitlesJoin(self.titles, other.titles),
   tags |-> TagsJoin(self.tags, other.tags)]

\* for r in v.reply_to.iter(): the back-reference (aid, k) is inserted into
\* the responses of comment r
RECURSIVE AbsorbReplyTo(_, _, _, _)
AbsorbReplyTo(view, rs, aid, k) ==
  IF rs = {} THEN view
  ELSE LET r == FirstMessageID(rs)
           next == [view EXCEPT !.comments =
                      Upd2(@, r[1], r[2], CommentMetaDefault,
                           LAMBDA cm : [cm EXCEPT !.responses = @ \cup {<<aid, k>>}])]
       IN  AbsorbReplyTo(next, rs \ {r}, aid, k)

\* a slip of RecordComment: the comment of the slice replaces the one in the
\* view
RecordCommentOverwrite(cm, v) == [cm EXCEPT !.comment = v]

\* .comment.join_assign(v): any version of the comment is recorded
RecordComment(cm, v) == [cm EXCEPT !.comment = CommentJoin(@, v)]

\* for (k, v) in slice.comments.inner
RECURSIVE AbsorbComments(_, _, _, _)
AbsorbComments(view, aid, comments, keys) ==
  IF keys = {} THEN view
  ELSE LET k == FirstKey(keys)
           v == comments[k]
           refs == AbsorbReplyTo(view, v.reply_to, aid, k)
           next == [refs EXCEPT !.comments =
                      Upd2(@, aid, k, CommentMetaDefault,
                           LAMBDA cm : RecordComment(cm, v))]
       IN  AbsorbComments(next, aid, comments, keys \ {k})

\* for (r, v) in v.inner { votes.entry(r).entry(aid).join_assign(v) }, on
\* the reactions of a comment or the tags of a thread
RECURSIVE AbsorbVotes(_, _, _, _)
AbsorbVotes(votes, aid, v, keys) ==
  IF keys = {} THEN votes
  ELSE LET r == FirstString(keys)
       IN  AbsorbVotes(Upd2(votes, r, aid, 0, LAMBDA x : MaxJoin(x, v[r])),
                       aid, v, keys \ {r})

\* for (k, v) in slice.reactions.inner
RECURSIVE AbsorbReactions(_, _, _, _)
AbsorbReactions(view, aid, reactions, keys) ==
  IF keys = {} THEN view
  ELSE LET k == FirstMessageID(keys)
           v == reactions[k]
           next == [view EXCEPT !.comments =
                      Upd2(@, k[1], k[2], CommentMetaDefault,
                           LAMBDA cm : [cm EXCEPT !.reactions =
                                          AbsorbVotes(@, aid, v, DOMAIN v)])]
       IN  AbsorbReactions(next, aid, reactions, keys \ {k})

\* for (id, thread) in slice.threads.inner
RECURSIVE AbsorbThreads(_, _, _, _)
AbsorbThreads(view, aid, threads, keys) ==
  IF keys = {} THEN view
  ELSE LET id == FirstKey(keys)
           next == [view EXCEPT !.threads =
                      Upd2(@, aid, id, ThreadDefault,
                           LAMBDA t : [t EXCEPT !.titles =
                                         TitlesJoin(@, threads[id].titles)])]
       IN  AbsorbThreads(next, aid, threads, keys \ {id})

\* for (k, v) in slice.tags.inner
RECURSIVE AbsorbTags(_, _, _, _)
AbsorbTags(view, aid, tags, keys) ==
  IF keys = {} THEN view
  ELSE LET k == FirstMessageID(keys)
           v == tags[k]
           next == [view EXCEPT !.threads =
                      Upd2(@, k[1], k[2], ThreadDefault,
                           LAMBDA t : [t EXCEPT !.tags =
                                         AbsorbVotes(@, aid, v, DOMAIN v)])]
       IN  AbsorbTags(next, aid, tags, keys \ {k})

\* Actor::absorb_slice: the view it leaves
absorb_slice(view, named) ==
  LET aid == named.aid
      slice == named.slice
      v1 == AbsorbComments(view, aid, slice.comments, DOMAIN slice.comments)
      v2 == AbsorbReactions(v1, aid, slice.reactions, DOMAIN slice.reactions)
      v3 == AbsorbThreads(v2, aid, slice.threads, DOMAIN slice.threads)
  IN  AbsorbTags(v3, aid, slice.tags, DOMAIN slice.tags)

\* Actor::new
NewActor(id, device_id) ==
  [id |-> id, device_id |-> device_id, counter |-> 0,
   slice |-> SliceDefault, view |-> ViewDefault]

\* (self.id, (self.counter << 16) + self.device_id)
NextMessageID(actor) == <<actor.id, actor.counter * 65536 + actor.device_id>>

\* Actor::new_thread, without tags
new_thread(actor, title, message) ==
  LET id == NextMessageID(actor)
      threads == [entry(actor.slice.threads, id[2], ThreadSliceDefault) EXCEPT ![id[2]] =
                    ThreadSliceJoin(@, [titles |-> [guard |-> 0, value |-> {title}],
                                        tags |-> NoEntries])]
      withC == entry(actor.slice.comments, id[2], CommentDefault)
      comments == [withC EXCEPT ![id[2]].content =
                     [entry(@, 0, Uninitialized) EXCEPT ![0] = ValJoin(@, message)]]
  IN  [actor EXCEPT !.counter = @ + 1,
                    !.slice.threads = threads,
                    !.slice.comments = comments]

\* Actor::reply
reply(actor, parent, message) ==
  LET id == NextMessageID(actor)
      c == [reply_to |-> {parent}, content |-> [k \in {0} |-> message]]
  IN  [actor EXCEPT !.counter = @ + 1,
                    !.slice.comments =
                       [entry(@, id[2], CommentDefault) EXCEPT ![id[2]] = CommentJoin(@, c)]]

\* Actor::edit: the version is read from the view through entry(), which
\* leaves a default comment in the view when there was none
edit(actor, id, message) ==
  LET comments == Upd2(actor.view.comments, actor.id, id[2], CommentMetaDefault,
                       LAMBDA cm : cm)
      content == comments[actor.id][id[2]].comment.content
      version == IF DOMAIN content = {} THEN 0
                 ELSE (CHOOSE x \in DOMAIN content : \A y \in DOMAIN content : y <= x) + 1
      key == version * 65536 + actor.device_id
      withC == entry(actor.slice.comments, id[2], CommentDefault)
  IN  [actor EXCEPT !.view.comments = comments,
                    !.slice.comments =
                       [withC EXCEPT ![id[2]].content =
                          [entry(@, key, Uninitialized) EXCEPT ![key] = ValJoin(@, message)]]]

\* Actor::redact
redact(actor, id, version) ==
  LET withC == entry(actor.slice.comments, id[2], CommentDefault)
  IN  [actor EXCEPT !.slice.comments =
         [withC EXCEPT ![id[2]].content =
            [entry(@, version, Uninitialized) EXCEPT ![version] = ValJoin(@, Redacted)]]]

\* Actor::react
react(actor, id, reaction, vote) ==
  [actor EXCEPT !.slice.reactions = Upd2(@, id, reaction, 0, LAMBDA x : MaxJoin(x, vote))]

\* the devices of main()
Devices == {"alice_0", "alice_1", "bob"}

\* main(), up to the first extract_slice, with the texts, the reaction and
\* the vote left open
Authored(m1, m2, m3, m4, reaction, vote, redacts) ==
  LET a_0 == new_thread(NewActor(Alice, 0), "Issue with feature X", m1)
      a0 == NextMessageID(NewActor(Alice, 0))
      b == reply(NewActor(Bob, 0), a0, m2)
      b0 == NextMessageID(NewActor(Bob, 0))
      a_1 == react(NewActor(Alice, 1), b0, reaction, vote)
      a2 == NextMessageID(a_0)
      a_0r == reply(a_0, b0, m3)
      a_1e == edit(a_1, a2, m4)
      a_1r == IF redacts THEN redact(a_1e, a2, 0) ELSE a_1e
  IN  [d \in Devices |-> IF d = "alice_0" THEN a_0r
                         ELSE IF d = "alice_1" THEN a_1r ELSE b]

\* --- SpecThreads: the devices of main() extract and absorb slices in any
\* order.  argA[d] is the Actor of device d, argB[d] the NamedSlice d has
\* extracted (aid and slice, none before), argC[d][e] the number of times d
\* has absorbed the slice of e.
NotExtracted == [aid |-> Alice, slice |-> SliceDefault, none |-> TRUE]

InitThreads ==
  /\ EngineIdle
  /\ \E m3 \in Data, m4 \in Data, reaction \in {":+1:", ":hourglass:"},
        vote \in 0..1, redacts \in BOOLEAN :
        argA = Authored("hello world", "hello kitty", m3, m4, reaction, vote, redacts)
  /\ argB = [d \in Devices |-> NotExtracted]
  /\ argC = [d \in Devices |-> [e \in Devices |-> 0]]
  /\ op = "none" /\ ret = [done |-> FALSE]

\* d.extract_slice(): the dirty slice is taken, absorbed by d itself and
\* returned
ExtractSlice(d) ==
  /\ argB[d].none
  /\ LET named == [aid |-> argA[d].id, slice |-> argA[d].slice, none |-> FALSE]
     IN  /\ argA' = [argA EXCEPT ![d].slice = SliceDefault,
                                 ![d].view = absorb_slice(@, named)]
         /\ argB' = [argB EXCEPT ![d] = named]
  /\ argC' = [argC EXCEPT ![d][d] = 1]
  /\ op' = "extract_slice"
  /\ UNCHANGED <<engine, ret>>

\* the calls of absorb_slice d has made
Absorbs(d) == argC[d]["alice_0"] + argC[d]["alice_1"] + argC[d]["bob"] - argC[d][d]

\* d.absorb_slice(the slice e has extracted), d's own included once it has
\* extracted its slice
AbsorbSlice(d, e) ==
  /\ ~argB[d].none /\ ~argB[e].none
  /\ Absorbs(d) < MaxAbsorb
  /\ argA' = [argA EXCEPT ![d].view = absorb_slice(@, argB[e])]
  /\ argC' = [argC EXCEPT ![d][e] = IF d = e THEN 1 ELSE @ + 1]
  /\ op' = "absorb_slice"
  /\ UNCHANGED <<engine, argB, ret>>

NextThreads ==
  \/ \E d \in Devices : ExtractSlice(d)
  \/ \E d \in Devices, e \in Devices : AbsorbSlice(d, e)

SpecThreads == InitThreads /\ [][NextThreads]_vars

\* ------------------------------------------------- claims, SpecThreads
\* the slices d has absorbed
Absorbed(d) == {e \in Devices : argC[d][e] > 0}

\* the view holds the comments, reactions and titles of a named slice:
\* absorbing the slice once more changes nothing
Holds(view, named) == absorb_slice(view, named) = view

====
